---- MODULE Spec2Model ----
(***************************************************************************)
(* Knowledge ingestion-and-retrieval core of SapIsuAssistant:              *)
(*   - KBItemRepository (SQLite table kb_items, dedupe + versioning)       *)
(*   - QdrantService    (one vector collection per scope)                  *)
(*   - review actions   (approve-and-index, reject)                        *)
(*   - ChatService      (answer, _fetch_and_boost, _build_context_pack)    *)
(*   - SynthesisPipeline.synthesize                                        *)
(*   - IngestionRepository, the ingestion flows and the web chat router    *)
(*   - create_or_update under concurrent writers                           *)
(***************************************************************************)
EXTENDS Integers, Sequences, FiniteSets, TLC

VARIABLES
    kb_items,      \* table kb_items: kb_id (PRIMARY KEY) -> row
    collections,   \* Qdrant: collection name -> [size, points]
    clock,         \* datetime.now(UTC), as a logical time
    ret,           \* what the last repository / index call returned
    qlog,          \* calls the last index operation made to the Qdrant client
    synth,         \* SynthesisPipeline.synthesize: the call in progress
    ingestions,    \* table ingestions: ingestion_id (PRIMARY KEY) -> row
    ingestion_status, \* web ingest router: _ingestion_status, id -> tracker
    writers        \* concurrent create_or_update calls: writer -> its position

vars ==
    <<kb_items, collections, clock, ret, qlog, synth, ingestions,
      ingestion_status, writers>>

----------------------------------------------------------------------------
(* Bounds of the model *)

MaxItems   == 2     \* pool of kb_ids (uuid4 values) that can be allocated
MaxVersion == 3     \* versions are explored up to this number
MaxWriters == 2     \* create_or_update calls that can be in progress at once
MaxClock   == 1     \* logical time runs 0..MaxClock

KbIds == 1..MaxItems

MaxIngestions == 2  \* pool of ingestion ids (uuid4 values)

----------------------------------------------------------------------------
(* Characters and strings.  A title is a sequence of characters; the      *)
(* alphabet has an ASCII letter in both cases, a non-ASCII letter in both  *)
(* cases, the space and one other whitespace character.                    *)

Chars == {"a", "A", "u_uml", "U_UML", "SP", "TAB"}

None == "<None>"

\* str.lower(): Unicode aware
PyLowerChar(c) ==
    IF c = "A" THEN "a" ELSE IF c = "U_UML" THEN "u_uml" ELSE c

\* SQLite LOWER(): folds ASCII letters only
SqlLowerChar(c) ==
    IF c = "A" THEN "a" ELSE c

\* str.strip() removes every leading/trailing whitespace character
PyWhitespace == {"SP", "TAB"}

\* SQLite TRIM(X) removes spaces only
SqlWhitespace == {"SP"}

RECURSIVE LStrip(_, _)
LStrip(s, ws) ==
    IF s = << >> THEN s
    ELSE IF Head(s) \in ws THEN LStrip(Tail(s), ws) ELSE s

RECURSIVE RStrip(_, _)
RStrip(s, ws) ==
    IF s = << >> THEN s
    ELSE IF s[Len(s)] \in ws THEN RStrip(SubSeq(s, 1, Len(s) - 1), ws) ELSE s

Strip(s, ws) == RStrip(LStrip(s, ws), ws)

\* KBItemRepository._normalize_title: title.strip().lower()
normalize_title(title) ==
    LET t == Strip(title, PyWhitespace)
    IN  [i \in 1..Len(t) |-> PyLowerChar(t[i])]

\* the SQL expression LOWER(TRIM(title)) of the lookup query
SqlLowerTrim(title) ==
    LET t == Strip(title, SqlWhitespace)
    IN  [i \in 1..Len(t) |-> SqlLowerChar(t[i])]

\* KBItemRepository._compute_content_hash: sha256 of "type|title|content",
\* the raw title included; sha256 is taken as injective.
compute_content_hash(content_markdown, title, item_type) ==
    <<item_type, title, content_markdown>>

----------------------------------------------------------------------------
(* KBItemRepository *)

\* the lookup without its `type = ?` condition
LookupMatchesAnyType(client_scope, client_code, item_type, normalized_title) ==
    { id \in DOMAIN kb_items :
        /\ kb_items[id].client_scope = client_scope
        /\ \/ (client_code = None /\ kb_items[id].client_code = None)
           \/ (client_code # None /\ kb_items[id].client_code = client_code)
        /\ SqlLowerTrim(kb_items[id].title) = normalized_title }

\* WHERE client_scope = ? AND (? IS NULL AND client_code IS NULL OR
\*       client_code = ?) AND type = ? AND LOWER(TRIM(title)) = ?
LookupMatches(client_scope, client_code, item_type, normalized_title) ==
    { id \in DOMAIN kb_items :
        /\ kb_items[id].client_scope = client_scope
        /\ \/ (client_code = None /\ kb_items[id].client_code = None)
           \/ (client_code # None /\ kb_items[id].client_code = client_code)
        /\ kb_items[id].type = item_type
        /\ SqlLowerTrim(kb_items[id].title) = normalized_title }

\* ORDER BY version DESC LIMIT 1: the rows the query may return
LookupLatest(client_scope, client_code, item_type, normalized_title) ==
    LET m == LookupMatches(client_scope, client_code, item_type, normalized_title)
    IN  { id \in m : \A o \in m : kb_items[o].version <= kb_items[id].version }

\* str(uuid.uuid4()): an id that is not in use
NewKbId == CHOOSE id \in KbIds \ DOMAIN kb_items :
               \A o \in KbIds \ DOMAIN kb_items : id <= o

\* get_by_id found no row (Python None)
NoItem == [kb_id |-> 0, status |-> "<None>"]

\* KBItemRepository.get_by_id
get_by_id(table, kb_id) ==
    IF kb_id \in DOMAIN table THEN table[kb_id] ELSE NoItem

\* tags=[] and sap_objects=[]
NoTags == << >>

\* signals={} and a sources dict that names no ingestion
NoSignals == << >>

NoSources == [ingestion_id |-> 0]

Args(client_scope, client_code, item_type, title, content_markdown, tags, sap_objects, status) ==
    [client_scope |-> client_scope, client_code |-> client_code,
     type |-> item_type, title |-> title,
     content_markdown |-> content_markdown, tags |-> tags,
     sap_objects |-> sap_objects, signals |-> NoSignals,
     sources |-> NoSources, status |-> status]

\* the same call with sources={"ingestion_id": ingestion_id}
WithSources(a, ingestion_id) ==
    [a EXCEPT !.sources = [ingestion_id |-> ingestion_id]]

NoQlog == << >>

\* a row whose created_at is always the time of the write
NewRowCreatedNow(kb_id, a, new_version, content_hash, created_at, now) ==
    [kb_id |-> kb_id, client_scope |-> a.client_scope,
     client_code |-> a.client_code, type |-> a.type, title |-> a.title,
     content_markdown |-> a.content_markdown, tags_json |-> a.tags,
     sap_objects_json |-> a.sap_objects, signals_json |-> a.signals,
     sources_json |-> a.sources, version |-> new_version,
     status |-> a.status, content_hash |-> content_hash,
     created_at |-> now, updated_at |-> now]

\* the row written by INSERT OR REPLACE
NewRow(kb_id, a, new_version, content_hash, created_at, now) ==
    [kb_id |-> kb_id, client_scope |-> a.client_scope,
     client_code |-> a.client_code, type |-> a.type, title |-> a.title,
     content_markdown |-> a.content_markdown, tags_json |-> a.tags,
     sap_objects_json |-> a.sap_objects, signals_json |-> a.signals,
     sources_json |-> a.sources, version |-> new_version,
     status |-> a.status, content_hash |-> content_hash,
     created_at |-> created_at, updated_at |-> now]

\* datetime.now(UTC) moves on between two calls
Tick ==
    /\ clock < MaxClock
    /\ clock' = clock + 1
    /\ ret' = [op |-> "tick"]
    /\ qlog' = NoQlog
    /\ UNCHANGED <<kb_items, collections, synth, ingestions, ingestion_status,
                   writers>>

\* a create_or_update that runs INSERT OR REPLACE on a deduplicated call too
CreateOrUpdateAlwaysWrites(a) ==
    LET content_hash == compute_content_hash(a.content_markdown, a.title, a.type)
        found == LookupLatest(a.client_scope, a.client_code, a.type,
                              normalize_title(a.title))
    IN  /\ IF found # {}
           THEN \E e \in found :
                  LET v == IF kb_items[e].content_hash = content_hash
                           THEN kb_items[e].version
                           ELSE kb_items[e].version + 1
                  IN  /\ v <= MaxVersion
                      /\ kb_items' = [kb_items EXCEPT ![e] =
                            NewRow(e, a, v, content_hash,
                                   kb_items[e].created_at, clock)]
                      /\ ret' = [op |-> "create_or_update", args |-> a,
                                 item |-> kb_items'[e], is_new |-> FALSE,
                                 wrote |-> TRUE]
           ELSE /\ KbIds \ DOMAIN kb_items # {}
                /\ kb_items' = [id \in DOMAIN kb_items \cup {NewKbId} |->
                      IF id = NewKbId
                      THEN NewRow(NewKbId, a, 1, content_hash, clock, clock)
                      ELSE kb_items[id]]
                /\ ret' = [op |-> "create_or_update", args |-> a,
                           item |-> kb_items'[NewKbId], is_new |-> TRUE,
                           wrote |-> TRUE]
        /\ qlog' = NoQlog
        /\ UNCHANGED <<collections, clock, synth, ingestions,
                       ingestion_status, writers>>

\* KBItemRepository.create_or_update
CreateOrUpdate(a) ==
    LET normalized_title == normalize_title(a.title)
        content_hash == compute_content_hash(a.content_markdown, a.title, a.type)
        found == LookupLatest(a.client_scope, a.client_code, a.type,
                              normalized_title)
        now == clock
    IN  IF found # {}
        THEN \E existing_kb_id \in found :
               LET row == kb_items[existing_kb_id] IN
               IF row.content_hash = content_hash
               THEN \* same content hash: return existing (dedupe)
                    /\ ret' = [op |-> "create_or_update", args |-> a,
                               item |-> get_by_id(kb_items, existing_kb_id),
                               is_new |-> FALSE, wrote |-> FALSE]
                    /\ UNCHANGED <<kb_items, collections, clock,
                                   synth, ingestions, ingestion_status, writers>>
                    /\ qlog' = NoQlog
               ELSE \* different content hash: increment version, same kb_id
                    /\ row.version + 1 <= MaxVersion
                    /\ kb_items' = [kb_items EXCEPT ![existing_kb_id] =
                          NewRow(existing_kb_id, a, row.version + 1,
                                 content_hash, row.created_at, now)]
                    /\ ret' = [op |-> "create_or_update", args |-> a,
                               item |-> kb_items'[existing_kb_id],
                               is_new |-> FALSE, wrote |-> TRUE]
                    /\ UNCHANGED <<collections, clock, synth,
                                   ingestions, ingestion_status, writers>>
                    /\ qlog' = NoQlog
        ELSE \* new item
             /\ KbIds \ DOMAIN kb_items # {}
             /\ LET kb_id == NewKbId IN
                /\ kb_items' = [id \in DOMAIN kb_items \cup {kb_id} |->
                      IF id = kb_id
                      THEN NewRow(kb_id, a, 1, content_hash, now, now)
                      ELSE kb_items[id]]
                /\ ret' = [op |-> "create_or_update", args |-> a,
                           item |-> kb_items'[kb_id],
                           is_new |-> TRUE, wrote |-> TRUE]
             /\ UNCHANGED <<collections, clock, synth,
                            ingestions, ingestion_status, writers>>
             /\ qlog' = NoQlog

\* KBItemRepository.update_status: UPDATE ... WHERE kb_id = ?, then get_by_id
update_status(table, kb_id, status, now) ==
    IF kb_id \in DOMAIN table
    THEN [table EXCEPT ![kb_id].status = status, ![kb_id].updated_at = now]
    ELSE table

\* the lookup of create_or_update on a given table
LookupLatestIn(table, client_scope, client_code, item_type, normalized_title) ==
    LET m == { id \in DOMAIN table :
                 /\ table[id].client_scope = client_scope
                 /\ \/ (client_code = None /\ table[id].client_code = None)
                    \/ (client_code # None /\ table[id].client_code = client_code)
                 /\ table[id].type = item_type
                 /\ SqlLowerTrim(table[id].title) = normalized_title }
    IN  { id \in m : \A o \in m : table[o].version <= table[id].version }

\* KBItemRepository.create_or_update as a function of the table: the tables
\* it can leave behind, with the returned item and is_new.  No outcome when
\* the id pool or the version range of the model is used up.
create_or_update(table, a, now) ==
    LET content_hash == compute_content_hash(a.content_markdown, a.title, a.type)
        found == LookupLatestIn(table, a.client_scope, a.client_code, a.type,
                                normalize_title(a.title))
        free == KbIds \ DOMAIN table
    IN  IF found # {}
        THEN { [table |-> IF table[e].content_hash = content_hash THEN table
                          ELSE [table EXCEPT ![e] =
                                  NewRow(e, a, table[e].version + 1, content_hash,
                                         table[e].created_at, now)],
                kb_id |-> e, is_new |-> FALSE] :
                 e \in { x \in found :
                           table[x].content_hash = content_hash
                           \/ table[x].version + 1 <= MaxVersion } }
        ELSE { [table |-> [id \in DOMAIN table \cup {n} |->
                             IF id = n
                             THEN NewRow(n, a, 1, content_hash, now, now)
                             ELSE table[id]],
                kb_id |-> n, is_new |-> TRUE] :
                 n \in { x \in free : \A o \in free : x <= o } }

----------------------------------------------------------------------------
(* KBItemRepository.create_or_update called by several writers at once.    *)
(* The SELECT runs outside any transaction (sqlite3 opens one only before  *)
(* the INSERT), so other connections can commit between the two, and the   *)
(* closing get_by_id reads through a connection of its own.                *)

Writers == 1..MaxWriters

\* fetchone() returned None
NoRow == [kb_id |-> 0, version |-> 0, content_hash |-> << >>, created_at |-> 0]

NoArgs == Args("", None, "", << >>, "", NoTags, NoTags, "")

\* a writer that has not called yet
WriterIdle ==
    [pc |-> "idle", a |-> NoArgs, row |-> NoRow, now |-> 0, kb_id |-> 0,
     new_version |-> 0, is_new |-> FALSE, item |-> NoItem]

NoWriters == [w \in {} |-> WriterIdle]

\* an id that always collides with the first one handed out
FirstKbId(table) == 1

\* kb_id = str(uuid.uuid4())
FreshKbId(table) ==
    CHOOSE id \in KbIds \ DOMAIN table : \A o \in KbIds \ DOMAIN table : id <= o

\* the lookup query and `now = datetime.now(UTC)`
WriterSelect(w, a) ==
    /\ writers[w].pc = "idle"
    /\ LET found == LookupLatestIn(kb_items, a.client_scope, a.client_code,
                                   a.type, normalize_title(a.title))
       IN  \E row \in IF found = {} THEN {NoRow}
                       ELSE { [kb_id |-> e, version |-> kb_items[e].version,
                               content_hash |-> kb_items[e].content_hash,
                               created_at |-> kb_items[e].created_at] :
                                e \in found } :
             writers' = [writers EXCEPT ![w] =
                           [WriterIdle EXCEPT !.pc = "selected", !.a = a,
                                              !.row = row, !.now = clock]]
    /\ UNCHANGED <<kb_items, collections, clock, ret, qlog, synth, ingestions,
                   ingestion_status>>

\* `if row:` ... INSERT OR REPLACE and commit, or the dedupe return
WriterInsert(w) ==
    /\ writers[w].pc = "selected"
    /\ LET a == writers[w].a
           row == writers[w].row
           content_hash ==
               compute_content_hash(a.content_markdown, a.title, a.type)
       IN  IF row # NoRow /\ row.content_hash = content_hash
           THEN /\ writers' = [writers EXCEPT ![w].pc = "done",
                                  ![w].kb_id = row.kb_id,
                                  ![w].item = get_by_id(kb_items, row.kb_id)]
                /\ UNCHANGED kb_items
           ELSE /\ row = NoRow => KbIds \ DOMAIN kb_items # {}
                /\ row.version + 1 <= MaxVersion
                /\ LET kb_id == IF row # NoRow THEN row.kb_id
                                ELSE FreshKbId(kb_items)
                       created_at == IF row # NoRow THEN row.created_at
                                     ELSE writers[w].now
                   IN  /\ kb_items' =
                            [id \in DOMAIN kb_items \cup {kb_id} |->
                               IF id = kb_id
                               THEN NewRow(kb_id, a, row.version + 1,
                                           content_hash, created_at,
                                           writers[w].now)
                               ELSE kb_items[id]]
                       /\ writers' = [writers EXCEPT ![w].pc = "committed",
                                         ![w].kb_id = kb_id,
                                         ![w].new_version = row.version + 1,
                                         ![w].is_new = (row = NoRow)]
    /\ UNCHANGED <<collections, clock, ret, qlog, synth, ingestions,
                   ingestion_status>>

\* item = self.get_by_id(kb_id); return item, is_new
WriterReturn(w) ==
    /\ writers[w].pc = "committed"
    /\ writers' = [writers EXCEPT ![w].pc = "done",
                      ![w].item = get_by_id(kb_items, writers[w].kb_id)]
    /\ UNCHANGED <<kb_items, collections, clock, ret, qlog, synth, ingestions,
                   ingestion_status>>

----------------------------------------------------------------------------
(* IngestionRepository *)

IngestionStatus == {"DRAFT", "SYNTHESIZED", "FAILED", "APPROVED", "REJECTED"}

IngestionIds == 1..MaxIngestions

\* str(uuid.uuid4()): an ingestion id that is not in use
NewIngestionId ==
    CHOOSE id \in IngestionIds \ DOMAIN ingestions :
        \A o \in IngestionIds \ DOMAIN ingestions : id <= o

\* get_by_id found no row (Python None)
NoIngestion == [ingestion_id |-> 0, status |-> "<None>"]

\* IngestionRepository.get_by_id
ingestion_get_by_id(table, ingestion_id) ==
    IF ingestion_id \in DOMAIN table THEN table[ingestion_id] ELSE NoIngestion

\* IngestionRepository.create: INSERT INTO ingestions
ingestion_create(table, ingestion_id, client_scope, client_code, status, now) ==
    [id \in DOMAIN table \cup {ingestion_id} |->
        IF id = ingestion_id
        THEN [ingestion_id |-> ingestion_id, client_scope |-> client_scope,
              client_code |-> client_code, status |-> status,
              created_at |-> now, updated_at |-> now]
        ELSE table[id]]

\* IngestionRepository.update_status: UPDATE ... WHERE ingestion_id = ?
ingestion_update_status(table, ingestion_id, status, now) ==
    IF ingestion_id \in DOMAIN table
    THEN [table EXCEPT ![ingestion_id].status = status,
                       ![ingestion_id].updated_at = now]
    ELSE table

\* a call of IngestionRepository.create
IngestionCreate(client_scope, client_code, status) ==
    /\ IngestionIds \ DOMAIN ingestions # {}
    /\ LET ingestion_id == NewIngestionId IN
       /\ ingestions' = ingestion_create(ingestions, ingestion_id, client_scope,
                                         client_code, status, clock)
       /\ ret' = [op |-> "ingestion_create",
                  ingestion |-> ingestion_get_by_id(ingestions', ingestion_id)]
    /\ UNCHANGED <<kb_items, collections, clock,
                   qlog, synth, ingestion_status, writers>>

\* a call of IngestionRepository.update_status
IngestionUpdateStatus(ingestion_id, status) ==
    /\ ingestions' = ingestion_update_status(ingestions, ingestion_id, status,
                                             clock)
    /\ ret' = [op |-> "ingestion_update_status",
               ingestion_id |-> ingestion_id, status |-> status,
               ingestion |-> ingestion_get_by_id(ingestions', ingestion_id)]
    /\ UNCHANGED <<kb_items, collections, clock,
                   qlog, synth, ingestion_status, writers>>

----------------------------------------------------------------------------
(* QdrantService *)

VECTOR_SIZE == 3072

\* vector size of a collection created for another embedding model
LegacySize == 1536

\* getattr(info.config.params.vectors, "size", None) found no size
NoSize == 0

StandardCollection == <<"kb_", "standard">>

\* str.upper() on a client code
Upper(code) ==
    CASE code = "swe" -> "SWE"
      [] code = "her" -> "HER"
      [] code = "el31" -> "EL31"
      [] code = "billing" -> "BILLING"
      [] code = "error" -> "ERROR"
      [] OTHER -> code

\* `not client_code`: None and the empty string are falsy
Falsy(code) == code = None \/ code = ""

\* the ValueError of _get_collection_name
NoCollection == <<"ValueError", "client_code required">>

\* QdrantService._get_collection_name
get_collection_name(client_scope, client_code) ==
    IF client_scope = "standard" THEN StandardCollection
    ELSE IF client_scope = "client"
         THEN IF Falsy(client_code) THEN NoCollection
              ELSE <<"kb_", Upper(client_code)>>
         ELSE NoCollection

NoPoints == [i \in {} |-> NoItem]

Call(name, collection) == [call |-> name, collection |-> collection]

\* QdrantService.ensure_collection_exists on an existing collection name:
\* [err, colls, calls]
ensure_collection_exists(colls, collection_name) ==
    IF collection_name \in DOMAIN colls
    THEN LET existing_size == colls[collection_name].size IN
         IF existing_size # NoSize /\ existing_size # VECTOR_SIZE
         THEN [err |-> "size_mismatch", colls |-> colls,
               calls |-> << Call("collection_exists", collection_name),
                            Call("get_collection", collection_name) >>]
         ELSE [err |-> "ok", colls |-> colls,
               calls |-> << Call("collection_exists", collection_name),
                            Call("get_collection", collection_name) >>]
    ELSE [err |-> "ok",
          colls |-> [n \in DOMAIN colls \cup {collection_name} |->
                       IF n = collection_name
                       THEN [size |-> VECTOR_SIZE, points |-> NoPoints]
                       ELSE colls[n]],
          calls |-> << Call("collection_exists", collection_name),
                       Call("create_collection", collection_name) >>]

\* payload and vector of the point written for kb_item
Point(kb_item, embedding) ==
    [kb_id |-> kb_item.kb_id, version |-> kb_item.version,
     client_scope |-> kb_item.client_scope,
     client_code |-> kb_item.client_code, vec |-> embedding.vec]

\* client.upsert(collection_name, points=[point]); point id = kb_id
PutPoint(colls, collection_name, point) ==
    [colls EXCEPT ![collection_name].points =
        [i \in DOMAIN colls[collection_name].points \cup {point.kb_id} |->
            IF i = point.kb_id THEN point
            ELSE colls[collection_name].points[i]]]

\* self.client.upsert after ensure_collection_exists returned e: the store
\* takes the point only if the collection holds single vectors of the
\* embedding's size
client_upsert(e, collection_name, kb_item, embedding) ==
    IF e.colls[collection_name].size # embedding.len
    THEN [err |-> "qdrant_error", colls |-> e.colls,
          calls |-> e.calls \o << Call("upsert", collection_name) >>]
    ELSE [err |-> "ok",
          colls |-> PutPoint(e.colls, collection_name,
                             Point(kb_item, embedding)),
          calls |-> e.calls \o << Call("upsert", collection_name) >>]

\* upsert_kb_item with its two checks after ensure_collection_exists
upsert_kb_item_checks_late(colls, kb_item, embedding) ==
    LET collection_name ==
            get_collection_name(kb_item.client_scope, kb_item.client_code)
    IN  IF collection_name = NoCollection
        THEN [err |-> "scope", colls |-> colls, calls |-> << >>]
        ELSE LET e == ensure_collection_exists(colls, collection_name) IN
             IF e.err # "ok" THEN e
             ELSE IF kb_item.status # "APPROVED"
                  THEN [err |-> "not_approved", colls |-> e.colls,
                        calls |-> e.calls]
                  ELSE IF embedding.len # VECTOR_SIZE
                       THEN [err |-> "dimension", colls |-> e.colls,
                             calls |-> e.calls]
                       ELSE client_upsert(e, collection_name, kb_item,
                                          embedding)

\* QdrantService.upsert_kb_item: [err, colls, calls]
upsert_kb_item(colls, kb_item, embedding) ==
    IF kb_item.status # "APPROVED"
    THEN [err |-> "not_approved", colls |-> colls, calls |-> << >>]
    ELSE IF embedding.len # VECTOR_SIZE
    THEN [err |-> "dimension", colls |-> colls, calls |-> << >>]
    ELSE LET collection_name ==
                 get_collection_name(kb_item.client_scope, kb_item.client_code)
         IN  IF collection_name = NoCollection
             THEN [err |-> "scope", colls |-> colls, calls |-> << >>]
             ELSE LET e == ensure_collection_exists(colls, collection_name) IN
                  IF e.err # "ok" THEN e
                  ELSE client_upsert(e, collection_name, kb_item, embedding)

\* a direct call of QdrantService.upsert_kb_item with a stored item
UpsertKbItem(kb_id, embedding) ==
    /\ kb_id \in DOMAIN kb_items
    /\ LET r == upsert_kb_item(collections, kb_items[kb_id], embedding) IN
       /\ collections' = r.colls
       /\ qlog' = r.calls
       /\ ret' = [op |-> "upsert_kb_item", kb_id |-> kb_id,
                  status |-> kb_items[kb_id].status,
                  embedding |-> embedding, err |-> r.err]
    /\ UNCHANGED <<kb_items, clock, synth,
                   ingestions, ingestion_status, writers>>

\* QdrantService.delete_kb_item
DeleteKbItem(kb_id) ==
    /\ kb_id \in DOMAIN kb_items
    /\ LET kb_item == kb_items[kb_id]
           collection_name ==
               get_collection_name(kb_item.client_scope, kb_item.client_code)
       IN  IF collection_name = NoCollection
           THEN /\ ret' = [op |-> "delete_kb_item", kb_id |-> kb_id,
                           err |-> "scope"]
                /\ qlog' = << >>
                /\ UNCHANGED collections
           ELSE IF collection_name \in DOMAIN collections
           THEN /\ collections' = [collections EXCEPT
                      ![collection_name].points =
                         [i \in DOMAIN collections[collection_name].points
                                \ {kb_id} |->
                             collections[collection_name].points[i]]]
                /\ qlog' = << Call("collection_exists", collection_name),
                              Call("delete", collection_name) >>
                /\ ret' = [op |-> "delete_kb_item", kb_id |-> kb_id,
                           err |-> "ok"]
           ELSE /\ qlog' = << Call("collection_exists", collection_name) >>
                /\ ret' = [op |-> "delete_kb_item", kb_id |-> kb_id,
                           err |-> "ok"]
                /\ UNCHANGED collections
    /\ UNCHANGED <<kb_items, clock, synth,
                   ingestions, ingestion_status, writers>>

\* cosine similarity of the query vector and a point's vector, times 100
ScoreOf(qvec, pvec) == IF qvec = pvec THEN 90 ELSE 40

Hit(kb_id, score) == [kb_id |-> kb_id, score |-> score]

\* client.search(collection_name, query_vector, limit): the `limit` nearest
\* points, best first; the order of equal scores is the store's choice.
HitOrders(points, qvec, limit) ==
    LET ids == DOMAIN points
        k == IF Cardinality(ids) < limit THEN Cardinality(ids) ELSE limit
        sc(i) == ScoreOf(qvec, points[i].vec)
    IN  { [j \in 1..k |-> Hit(points[f[j]].kb_id, sc(f[j]))] :
            f \in { g \in [1..k -> ids] :
                      /\ \A x, y \in 1..k : x < y =>
                            (g[x] # g[y] /\ sc(g[x]) >= sc(g[y]))
                      /\ \A i \in ids : \A x \in 1..k :
                            (\A y \in 1..k : g[y] # i) => sc(i) <= sc(g[x]) } }

\* list.sort(key=score, reverse=True): stable, descending
RECURSIVE InsertDesc(_, _)
InsertDesc(sorted, h) ==
    IF sorted = << >> THEN <<h>>
    ELSE IF Head(sorted).score >= h.score
         THEN <<Head(sorted)>> \o InsertDesc(Tail(sorted), h)
         ELSE <<h>> \o sorted

\* no sort: the hits in the order they were collected
SortKeep(hits) == hits

RECURSIVE SortDesc(_)
SortDesc(hits) ==
    IF hits = << >> THEN << >>
    ELSE InsertDesc(SortDesc(SubSeq(hits, 1, Len(hits) - 1)), hits[Len(hits)])

Take(seq, n) == SubSeq(seq, 1, IF Len(seq) < n THEN Len(seq) ELSE n)

\* a search that also looks at one more existing collection
SearchTargetsAllClients(colls, client_scope, client_code, include_standard) ==
    (IF include_standard THEN <<StandardCollection>> ELSE << >>)
    \o (IF client_scope = "client" /\ ~Falsy(client_code)
        THEN <<get_collection_name(client_scope, client_code)>>
             \o (IF \E n \in DOMAIN colls :
                       n \notin {StandardCollection,
                                 get_collection_name(client_scope, client_code)}
                 THEN <<CHOOSE n \in DOMAIN colls :
                       n \notin {StandardCollection,
                                 get_collection_name(client_scope, client_code)}>>
                 ELSE << >>)
        ELSE << >>)

\* a search that reads the shared collection whatever include_standard says
SearchTargetsAlwaysStandard(colls, client_scope, client_code, include_standard) ==
    <<StandardCollection>>
    \o (IF client_scope = "client" /\ ~Falsy(client_code)
        THEN <<get_collection_name(client_scope, client_code)>>
        ELSE << >>)

\* the collections QdrantService.search looks at, in order
SearchTargets(colls, client_scope, client_code, include_standard) ==
    (IF include_standard THEN <<StandardCollection>> ELSE << >>)
    \o (IF client_scope = "client" /\ ~Falsy(client_code)
        THEN <<get_collection_name(client_scope, client_code)>>
        ELSE << >>)

\* one `if collection_exists: results.extend(client.search(...))` block;
\* the store refuses a query vector whose size is not the collection's
SearchCollection(colls, name, q, limit) ==
    IF name \notin DOMAIN colls
    THEN { [err |-> "ok", hits |-> << >>,
            calls |-> << Call("collection_exists", name) >>] }
    ELSE IF colls[name].size # q.len
    THEN { [err |-> "qdrant_error", hits |-> << >>,
            calls |-> << Call("collection_exists", name),
                         Call("search", name) >>] }
    ELSE { [err |-> "ok", hits |-> h,
            calls |-> << Call("collection_exists", name),
                         Call("search", name) >>] :
              h \in HitOrders(colls[name].points, q.vec, limit) }

RECURSIVE SearchAll(_, _, _, _)
SearchAll(colls, targets, q, limit) ==
    IF targets = << >>
    THEN { [err |-> "ok", hits |-> << >>, calls |-> << >>] }
    ELSE UNION { IF o.err # "ok" THEN {o}
                 ELSE { [err |-> r.err, hits |-> o.hits \o r.hits,
                         calls |-> o.calls \o r.calls] :
                           r \in SearchAll(colls, Tail(targets), q, limit) } :
                 o \in SearchCollection(colls, Head(targets), q, limit) }

\* QdrantService.search
Search(a) ==
    /\ IF a.query_embedding.len # VECTOR_SIZE
       THEN /\ ret' = [op |-> "search", args |-> a, err |-> "dimension",
                       results |-> << >>]
            /\ qlog' = << >>
       ELSE \E o \in SearchAll(collections,
                       SearchTargets(collections, a.client_scope,
                                     a.client_code, a.include_standard),
                       a.query_embedding, a.limit) :
            /\ ret' = [op |-> "search", args |-> a, err |-> o.err,
                       results |-> IF o.err = "ok"
                                   THEN Take(SortDesc(o.hits), a.limit)
                                   ELSE << >>]
            /\ qlog' = o.calls
    /\ UNCHANGED <<kb_items, collections, clock,
                   synth, ingestions, ingestion_status, writers>>

----------------------------------------------------------------------------
(* Review actions *)

\* ReviewTab._do_approve: update_status(APPROVED), get_by_id, embed, upsert;
\* an exception of the embedding call or of upsert_kb_item is caught and
\* logged.  embedding.ok = FALSE stands for a failed embedding call.
ApproveAndIndex(kb_id, embedding) ==
    /\ kb_id \in DOMAIN kb_items
    /\ kb_items' = update_status(kb_items, kb_id, "APPROVED", clock)
    /\ LET updated == get_by_id(kb_items', kb_id) IN
       IF ~embedding.ok
       THEN /\ ret' = [op |-> "approve", kb_id |-> kb_id, err |-> "embed"]
            /\ qlog' = << >>
            /\ UNCHANGED collections
       ELSE LET r == upsert_kb_item(collections, updated, embedding) IN
            /\ collections' = r.colls
            /\ qlog' = r.calls
            /\ ret' = [op |-> "approve", kb_id |-> kb_id, err |-> r.err]
    /\ UNCHANGED <<clock, synth, ingestions, ingestion_status, writers>>

\* ReviewTab._on_reject / reject_item: update_status(REJECTED) only
Reject(kb_id) ==
    /\ kb_id \in DOMAIN kb_items
    /\ kb_items' = update_status(kb_items, kb_id, "REJECTED", clock)
    /\ ret' = [op |-> "reject", kb_id |-> kb_id, err |-> "ok"]
    /\ qlog' = << >>
    /\ UNCHANGED <<collections, clock, synth,
                   ingestions, ingestion_status, writers>>

----------------------------------------------------------------------------
(* ChatService *)

\* scores are hundredths: 0.05 is 5
TAG_BOOST == 5

SAP_OBJECT_BOOST == 5

MAX_CONTEXT_TOKENS == 100000

\* `if remaining > 100`: the smallest remainder worth a truncated section
MinTruncated == 100

\* tokens of a section's three header lines (index, title, type, tags,
\* objects, score, id)
HeaderTokens == 30

\* len(encode(content_markdown)) of the bodies used here
ContentTokens(content_markdown) ==
    CASE content_markdown = "body1" -> 12
      [] content_markdown = "body2" -> 15
      [] content_markdown = "body3" -> 20
      [] content_markdown = "text60" -> 60
      [] content_markdown = "text120" -> 120
      [] content_markdown = "text250" -> 250
      [] content_markdown = "text99950" -> 99950

\* the f-string of section i; its text is kept as the item and a token count
Section(i, item, score) ==
    [index |-> i, kb_id |-> item.kb_id, score |-> score,
     tokens |-> HeaderTokens + ContentTokens(item.content_markdown),
     truncated |-> FALSE]

count_tokens(section) == section.tokens

\* decode(tokens[:max_tokens])
truncate_to_token_limit(section, max_tokens) ==
    IF section.tokens <= max_tokens THEN section
    ELSE [section EXCEPT !.tokens = max_tokens, !.truncated = TRUE]

Scored(item, score) == [item |-> item, score |-> score]

\* _build_context_pack with `continue` in place of `break`
RECURSIVE PackLoopSkips(_, _, _, _, _)
PackLoopSkips(source_items, i, sections, total_tokens, max_tokens) ==
    IF i > Len(source_items) THEN sections
    ELSE LET section == Section(i, source_items[i].item, source_items[i].score)
             section_tokens == count_tokens(section)
             remaining == max_tokens - total_tokens
         IN  IF total_tokens + section_tokens > max_tokens
             THEN PackLoopSkips(source_items, i + 1,
                      IF remaining > MinTruncated
                      THEN Append(sections,
                                  truncate_to_token_limit(section, remaining))
                      ELSE sections,
                      total_tokens, max_tokens)
             ELSE PackLoopSkips(source_items, i + 1, Append(sections, section),
                                total_tokens + section_tokens, max_tokens)

\* the for loop of _build_context_pack from candidate i on
RECURSIVE PackLoop(_, _, _, _, _)
PackLoop(source_items, i, sections, total_tokens, max_tokens) ==
    IF i > Len(source_items) THEN sections
    ELSE LET section == Section(i, source_items[i].item, source_items[i].score)
             section_tokens == count_tokens(section)
             remaining == max_tokens - total_tokens
         IN  IF total_tokens + section_tokens > max_tokens
             THEN IF remaining > MinTruncated
                  THEN Append(sections,
                              truncate_to_token_limit(section, remaining))
                  ELSE sections
             ELSE PackLoop(source_items, i + 1, Append(sections, section),
                           total_tokens + section_tokens, max_tokens)

\* ChatService._build_context_pack: the sections that are joined; no sections
\* for an empty candidate list (the fixed "No relevant knowledge items
\* found." text)
build_context_pack(source_items, max_tokens) ==
    IF source_items = << >> THEN << >>
    ELSE PackLoop(source_items, 1, << >>, 0, max_tokens)

RECURSIVE SumTokens(_)
SumTokens(sections) ==
    IF sections = << >> THEN 0
    ELSE Head(sections).tokens + SumTokens(Tail(sections))

\* count_tokens("\n\n---\n\n".join(sections)) when each separator encodes to
\* sep_tokens tokens
JoinedTokens(sections, sep_tokens) ==
    IF sections = << >> THEN 0
    ELSE SumTokens(sections) + (Len(sections) - 1) * sep_tokens

\* set(re.findall(r'[A-Za-z0-9_/]+', question.upper())); a question is the
\* sequence of its words
QueryTokens(question) == { Upper(question[i]) : i \in DOMAIN question }

UpperSet(seq) == { Upper(seq[i]) : i \in DOMAIN seq }

\* no ranking boost
BoostNone(item, query_tokens) == 0

Boost(item, query_tokens) ==
    TAG_BOOST * Cardinality(query_tokens \cap UpperSet(item.tags_json))
    + SAP_OBJECT_BOOST
        * Cardinality(query_tokens \cap UpperSet(item.sap_objects_json))

\* _fetch_and_boost without the status check
RECURSIVE FetchLoopAnyStatus(_, _, _, _)
FetchLoopAnyStatus(search_results, table, query_tokens, i) ==
    IF i > Len(search_results) THEN << >>
    ELSE LET item == get_by_id(table, search_results[i].kb_id)
             rest == FetchLoopAnyStatus(search_results, table, query_tokens, i + 1)
         IN  IF item = NoItem
             THEN rest
             ELSE <<Scored(item, search_results[i].score
                                 + Boost(item, query_tokens))>> \o rest

\* _fetch_and_boost with `break` in place of `continue`
RECURSIVE FetchLoopStopsAtInvalid(_, _, _, _)
FetchLoopStopsAtInvalid(search_results, table, query_tokens, i) ==
    IF i > Len(search_results) THEN << >>
    ELSE LET item == get_by_id(table, search_results[i].kb_id)
         IN  IF item = NoItem \/ item.status # "APPROVED"
             THEN << >>
             ELSE <<Scored(item, search_results[i].score
                                 + Boost(item, query_tokens))>>
                  \o FetchLoopStopsAtInvalid(search_results, table,
                                             query_tokens, i + 1)

\* the for loop of _fetch_and_boost from search result i on
RECURSIVE FetchLoop(_, _, _, _)
FetchLoop(search_results, table, query_tokens, i) ==
    IF i > Len(search_results) THEN << >>
    ELSE LET item == get_by_id(table, search_results[i].kb_id)
             rest == FetchLoop(search_results, table, query_tokens, i + 1)
         IN  IF item = NoItem \/ item.status # "APPROVED"
             THEN rest
             ELSE <<Scored(item, search_results[i].score
                                 + Boost(item, query_tokens))>> \o rest

\* ChatService._fetch_and_boost
fetch_and_boost(search_results, table, question) ==
    SortDesc(FetchLoop(search_results, table, QueryTokens(question), 1))

\* the get_by_id calls of _fetch_and_boost, one per search result
FetchCalls(search_results) ==
    [i \in 1..Len(search_results) |-> "get_by_id"]

NO_RESULTS_ANSWER == "No se encontraron resultados relevantes"

ChatError(calls, a, message) ==
    [op |-> "answer", args |-> a, outcome |-> "ChatError", error |-> message,
     calls |-> calls, answer |-> None, sources |-> << >>,
     model_called |-> FALSE, used_kb_items |-> << >>, context |-> << >>]

\* a ChatResult whose flag is never set
ChatResultUnflagged(calls, a, answer, sources, model_called, context) ==
    [op |-> "answer", args |-> a, outcome |-> "ChatResult", error |-> None,
     calls |-> calls, answer |-> answer,
     sources |-> [i \in DOMAIN sources |-> sources[i].item],
     model_called |-> FALSE,
     used_kb_items |-> [i \in DOMAIN sources |-> sources[i].item.kb_id],
     context |-> context]

ChatResult(calls, a, answer, sources, model_called, context) ==
    [op |-> "answer", args |-> a, outcome |-> "ChatResult", error |-> None,
     calls |-> calls, answer |-> answer,
     sources |-> [i \in DOMAIN sources |-> sources[i].item],
     model_called |-> model_called,
     used_kb_items |-> [i \in DOMAIN sources |-> sources[i].item.kb_id],
     context |-> context]

\* an answer() that goes on to the search whatever the embedding call did
answer_without_embed_check(table, a) ==
    LET fetched == <<"embed", "search">> \o FetchCalls(a.search.results) IN
    IF ~a.search.ok
    THEN ChatError(<<"embed", "search">>, a, "qdrant")
    ELSE [op |-> "answer", args |-> a, outcome |-> "ChatResult",
          error |-> None, calls |-> fetched, answer |-> NO_RESULTS_ANSWER,
          sources |-> << >>, model_called |-> FALSE, used_kb_items |-> << >>,
          context |-> << >>]

\* ChatService.answer(question, kb_repo, ...).  a.embed, a.search and
\* a.generate are what the embedding service, the vector search and the
\* generation service do in this request.
answer(table, a) ==
    IF ~a.embed.ok
    THEN ChatError(<<"embed">>, a, "openai")
    ELSE IF ~a.search.ok
    THEN ChatError(<<"embed", "search">>, a, "qdrant")
    ELSE LET source_items == fetch_and_boost(a.search.results, table, a.question)
             fetched == <<"embed", "search">> \o FetchCalls(a.search.results)
         IN  IF source_items = << >>
             THEN ChatResult(fetched, a, NO_RESULTS_ANSWER, << >>, FALSE, << >>)
             ELSE LET context_pack ==
                          build_context_pack(source_items, MAX_CONTEXT_TOKENS)
                      called == Append(fetched, "generate")
                  IN  IF ~a.generate
                      THEN [ChatError(called, a, "openai")
                               EXCEPT !.context = context_pack]
                      ELSE ChatResult(called, a, "output_text", source_items,
                                      TRUE, context_pack)

Answer(a) ==
    /\ ret' = answer(kb_items, a)
    /\ qlog' = << >>
    /\ UNCHANGED <<kb_items, collections, clock,
                   synth, ingestions, ingestion_status, writers>>

\* the scopes a chat request can name
ChatScopes == {"general", "client", "client_plus_standard"}

\* KBItemRepository(db_path): each data directory has an assistant_kb.sqlite
\* of its own; the ingestion and review routers keep the shared items in
\* standard/ and the items of a client in clients/<CODE>/
KbRepoOf(table, client_scope, client_code) ==
    LET mine == { id \in DOMAIN table :
                    /\ table[id].client_scope = client_scope
                    /\ table[id].client_code = client_code }
    IN  [id \in mine |-> table[id]]

\* chat_send of the web chat router: the repository handed to answer() is
\* the active client's for the client scopes, the shared one otherwise
ChatSend(scope, active_client_code, a) ==
    /\ LET kb_repo ==
               IF scope \in {"client", "client_plus_standard"}
                  /\ ~Falsy(active_client_code)
               THEN KbRepoOf(kb_items, "client", active_client_code)
               ELSE KbRepoOf(kb_items, "standard", None)
       IN  ret' = [answer(kb_repo, a) EXCEPT !.op = "chat_send"]
                  @@ [scope |-> scope, client_code |-> active_client_code]
    /\ qlog' = << >>
    /\ UNCHANGED <<kb_items, collections, clock,
                   synth, ingestions, ingestion_status, writers>>

\* a direct call _build_context_pack(source_items, max_tokens)
BuildContextPack ==
    /\ ret.op = "call_build_context_pack"
    /\ LET sections == build_context_pack(ret.args.source_items,
                                          ret.args.max_tokens)
       IN  ret' = [op |-> "build_context_pack", args |-> ret.args,
                   sections |-> sections,
                   context_tokens |->
                       JoinedTokens(sections, ret.args.sep_tokens)]
    /\ UNCHANGED <<kb_items, collections, clock, qlog,
                   synth, ingestions, ingestion_status, writers>>

----------------------------------------------------------------------------
(* SynthesisPipeline *)

KBItemType ==
    {"INCIDENT_PATTERN", "ROOT_CAUSE", "RESOLUTION", "VERIFICATION_STEPS",
     "CUSTOMIZING", "ABAP_TECH_NOTE", "GLOSSARY", "RUNBOOK"}

VALID_TYPES == KBItemType

Err(i, field, msg) == <<i, field, msg>>

\* A synthesized item as parsed JSON.  is_object: the array element is a JSON
\* object.  Each field holds "MISSING" or the shape of its value:
\*   type              a string (valid iff in VALID_TYPES)
\*   title, content    "STR" | "BLANK" | "NONSTR"
\*   tags, sap_objects "STRLIST" | "NOTLIST" | "MIXEDLIST"
\*   signals           "OBJECT" | "NOTOBJECT"
SynthItem(is_object, type, title, content, tags, sap_objects, signals) ==
    [is_object |-> is_object, type |-> type, title |-> title,
     content_markdown |-> content, tags |-> tags, sap_objects |-> sap_objects,
     signals |-> signals]

RequiredFields ==
    <<"type", "title", "content_markdown", "tags", "sap_objects", "signals">>

Opt(cond, e) == IF cond THEN <<e>> ELSE << >>

RECURSIVE MissingErrors(_, _, _)
MissingErrors(i, item, k) ==
    IF k > Len(RequiredFields) THEN << >>
    ELSE Opt(item[RequiredFields[k]] = "MISSING",
             Err(i, RequiredFields[k], "missing required field"))
         \o MissingErrors(i, item, k + 1)

\* the body of the `for i, item in enumerate(kb_items)` loop
ItemErrors(i, item) ==
    IF ~item.is_object THEN <<Err(i, "", "must be an object")>>
    ELSE MissingErrors(i, item, 1)
         \o Opt(item.type # "MISSING" /\ item.type \notin VALID_TYPES,
                Err(i, "type", "invalid value"))
         \o Opt(item.title \in {"BLANK", "NONSTR"},
                Err(i, "title", "must be a non-empty string"))
         \o Opt(item.content_markdown \in {"BLANK", "NONSTR"},
                Err(i, "content_markdown", "must be a non-empty string"))
         \o Opt(item.tags = "NOTLIST", Err(i, "tags", "must be an array"))
         \o Opt(item.tags = "MIXEDLIST",
                Err(i, "tags", "all items must be strings"))
         \o Opt(item.sap_objects = "NOTLIST",
                Err(i, "sap_objects", "must be an array"))
         \o Opt(item.sap_objects = "MIXEDLIST",
                Err(i, "sap_objects", "all items must be strings"))
         \o Opt(item.signals = "NOTOBJECT",
                Err(i, "signals", "must be an object"))

\* validation that looks at the first item only
AllItemErrorsFirstOnly(kb_items_, i) ==
    ItemErrors(0, kb_items_[1])

RECURSIVE AllItemErrors(_, _)
AllItemErrors(kb_items_, i) ==
    IF i > Len(kb_items_) THEN << >>
    ELSE ItemErrors(i - 1, kb_items_[i]) \o AllItemErrors(kb_items_, i + 1)

\* validate_synthesis_output: the list of error messages
validate_synthesis_output(data) ==
    IF data.shape = "not_object"
    THEN <<Err(0, "", "Output must be a JSON object")>>
    ELSE IF data.shape = "no_kb_items"
    THEN <<Err(0, "", "Missing required field: kb_items")>>
    ELSE IF data.shape = "kb_items_not_list"
    THEN <<Err(0, "", "kb_items must be an array")>>
    ELSE IF Len(data.kb_items) = 0
    THEN <<Err(0, "", "kb_items must be non-empty")>>
    ELSE AllItemErrors(data.kb_items, 1)

Data(shape, items) == [shape |-> shape, kb_items |-> items]

NoData == Data("none", << >>)

\* what one client.responses.create call yields: an exception, text that is
\* not JSON, or JSON text
Response(kind, data) == [kind |-> kind, data |-> data]

\* range(1 + max_retries) with one more iteration
AttemptsOneMore(max_retries) == 2 + max_retries

\* range(1 + max_retries): the number of loop iterations
Attempts(max_retries) == 1 + max_retries

NoResponse == Response("none", NoData)

SynthIdle ==
    [pc |-> "idle", max_retries |-> 0, attempt |-> 0, calls |-> 0,
     last_errors |-> << >>, log |-> << >>, result |-> NoData,
     resp |-> NoResponse]

\* synthesize(extracted_text, max_retries) is called
SynthCall(max_retries) ==
    /\ synth.pc \in {"idle", "returned", "raised"}
    /\ synth' = [pc |-> "loop", max_retries |-> max_retries, attempt |-> 0,
                 calls |-> 0, last_errors |-> << >>, log |-> << >>,
                 result |-> NoData, resp |-> NoResponse]
    /\ UNCHANGED <<kb_items, collections, clock, ret,
                   qlog, ingestions, ingestion_status, writers>>

\* one iteration of the loop: the model call, json.loads, validation
SynthAttempt(resp) ==
    /\ synth.pc = "loop"
    /\ synth.attempt < Attempts(synth.max_retries)
    /\ LET errors == IF resp.kind = "api_error"
                     THEN <<Err(0, "", "API error")>>
                     ELSE IF resp.kind = "invalid_json"
                     THEN <<Err(0, "", "Invalid JSON")>>
                     ELSE validate_synthesis_output(resp.data)
           outcome == IF resp.kind # "json" THEN resp.kind
                      ELSE IF errors = << >> THEN "valid" ELSE "invalid"
       IN  IF errors = << >>
           THEN synth' = [synth EXCEPT !.pc = "returned",
                             !.calls = @ + 1, !.log = Append(@, outcome),
                             !.result = resp.data, !.resp = resp]
           ELSE synth' = [synth EXCEPT !.attempt = @ + 1,
                             !.calls = @ + 1, !.log = Append(@, outcome),
                             !.last_errors = errors, !.resp = resp]
    /\ UNCHANGED <<kb_items, collections, clock, ret,
                   qlog, ingestions, ingestion_status, writers>>

\* the loop is exhausted: raise SynthesisError(... last_errors)
SynthRaise ==
    /\ synth.pc = "loop"
    /\ synth.attempt >= Attempts(synth.max_retries)
    /\ synth' = [synth EXCEPT !.pc = "raised"]
    /\ UNCHANGED <<kb_items, collections, clock, ret,
                   qlog, ingestions, ingestion_status, writers>>

----------------------------------------------------------------------------
(* Ingestion: IngestTab._do_ingest and the web ingest router *)

\* SynthesisPipeline.synthesize run against a given sequence of model
\* responses, one per attempt: [raised, data, calls]
RECURSIVE SynthLoop(_, _, _)
SynthLoop(responses, attempt, max_retries) ==
    IF attempt >= Attempts(max_retries)
    THEN [raised |-> TRUE, data |-> NoData, calls |-> attempt]
    ELSE LET resp == responses[attempt + 1]
             errors == IF resp.kind = "api_error"
                       THEN <<Err(0, "", "API error")>>
                       ELSE IF resp.kind = "invalid_json"
                       THEN <<Err(0, "", "Invalid JSON")>>
                       ELSE validate_synthesis_output(resp.data)
         IN  IF errors = << >>
             THEN [raised |-> FALSE, data |-> resp.data, calls |-> attempt + 1]
             ELSE SynthLoop(responses, attempt + 1, max_retries)

synthesize(responses, max_retries) == SynthLoop(responses, 0, max_retries)

\* default of synthesize(extracted_text, max_retries=1)
DefaultMaxRetries == 1

\* the create_or_update call for one synthesized item.  A SynthItem keeps
\* the shape of its fields; the title text is fixed and the body text is the
\* one the model wrote in this run.
StoreArgs(client_scope, client_code, synth_item, content_markdown, ingestion_id) ==
    WithSources(Args(client_scope, client_code, synth_item.type, <<"a">>,
                     content_markdown, NoTags, NoTags, "DRAFT"),
                ingestion_id)

\* the `for synth_item in items: kb_repo.create_or_update(...)` loop from
\* item k on: the tables it can leave behind
RECURSIVE StoreItems(_, _, _, _, _, _, _)
StoreItems(table, items, k, client_scope, client_code, o, ingestion_id) ==
    IF k > Len(items) THEN {table}
    ELSE UNION { StoreItems(r.table, items, k + 1, client_scope, client_code,
                            o, ingestion_id) :
                 r \in create_or_update(table,
                          StoreArgs(client_scope, client_code, items[k],
                                    o.content_markdown, ingestion_id),
                          clock) }

Tracker(status, items_count) == [status |-> status, items_count |-> items_count]

\* _run_synthesis with the generic handler's behaviour on SynthesisError
run_synthesis_keeps_status(ings, table, ingestion_id, o) ==
    LET r == synthesize(o.responses, DefaultMaxRetries) IN
    IF ~o.ctor_ok \/ r.raised
    THEN { [ingestions |-> ings, kb_items |-> table,
            tracker |-> Tracker("failed", 0),
            outcome |-> IF ~o.ctor_ok THEN "Exception" ELSE "SynthesisError"] }
    ELSE { [ingestions |-> ingestion_update_status(ings, ingestion_id,
                                                  "SYNTHESIZED", clock),
            kb_items |-> t,
            tracker |-> Tracker("completed", Len(r.data.kb_items)),
            outcome |-> "completed"] :
             t \in StoreItems(table, r.data.kb_items, 1,
                              ings[ingestion_id].client_scope,
                              ings[ingestion_id].client_code, o, ingestion_id) }

\* web ingest router, _run_synthesis(ingestion_id, text, scope, client_code,
\* api_key): the states it can leave behind.  o.ctor_ok: SynthesisPipeline()
\* could be constructed; o.responses: what the model answers.
run_synthesis(ings, table, ingestion_id, o) ==
    LET r == synthesize(o.responses, DefaultMaxRetries) IN
    IF ~o.ctor_ok
    THEN \* except Exception: only the tracker is updated
         { [ingestions |-> ings, kb_items |-> table,
            tracker |-> Tracker("failed", 0), outcome |-> "Exception"] }
    ELSE IF r.raised
    THEN \* except SynthesisError
         { [ingestions |-> ingestion_update_status(ings, ingestion_id,
                                                  "FAILED", clock),
            kb_items |-> table,
            tracker |-> Tracker("failed", 0), outcome |-> "SynthesisError"] }
    ELSE { [ingestions |-> ingestion_update_status(ings, ingestion_id,
                                                  "SYNTHESIZED", clock),
            kb_items |-> t,
            tracker |-> Tracker("completed", Len(r.data.kb_items)),
            outcome |-> "completed"] :
             t \in StoreItems(table, r.data.kb_items, 1,
                              ings[ingestion_id].client_scope,
                              ings[ingestion_id].client_code, o, ingestion_id) }

\* POST /api/ingest/text (and /api/ingest/file): create the record, queue
\* the background task
IngestText(scope, active_client_code) ==
    LET client_code == IF scope = "client" THEN active_client_code ELSE None IN
    /\ IF scope = "client" /\ Falsy(client_code)
       THEN /\ ret' = [op |-> "ingest_text", status_code |-> 400,
                       ingestion_id |-> 0]
            /\ UNCHANGED <<ingestions, ingestion_status>>
       ELSE /\ IngestionIds \ DOMAIN ingestions # {}
            /\ LET ingestion_id == NewIngestionId IN
               /\ ingestions' = ingestion_create(ingestions, ingestion_id,
                                    scope, client_code, "DRAFT", clock)
               /\ ingestion_status' =
                     [id \in DOMAIN ingestion_status \cup {ingestion_id} |->
                        IF id = ingestion_id THEN Tracker("queued", 0)
                        ELSE ingestion_status[id]]
               /\ ret' = [op |-> "ingest_text", status_code |-> 202,
                          ingestion_id |-> ingestion_id]
    /\ UNCHANGED <<kb_items, collections, clock, qlog, synth, writers>>

\* the background task of a queued ingestion runs
RunSynthesis(ingestion_id, o) ==
    /\ ingestion_id \in DOMAIN ingestion_status
    /\ ingestion_status[ingestion_id].status = "queued"
    /\ \E r \in run_synthesis(ingestions, kb_items, ingestion_id, o) :
          /\ ingestions' = r.ingestions
          /\ kb_items' = r.kb_items
          /\ ingestion_status' =
                [ingestion_status EXCEPT ![ingestion_id] = r.tracker]
          /\ ret' = [op |-> "run_synthesis", ingestion_id |-> ingestion_id,
                     outcome |-> r.outcome]
    /\ UNCHANGED <<collections, clock, qlog, synth, writers>>

\* IngestTab._do_ingest: create the record, synthesize, store the items
DoIngest(scope, active_client_code, o) ==
    LET client_code == IF scope = "client" THEN active_client_code ELSE None IN
    /\ IF scope = "client" /\ Falsy(client_code)
       THEN /\ ret' = [op |-> "do_ingest", ingestion_id |-> 0,
                       outcome |-> "no_client"]
            /\ UNCHANGED <<ingestions, kb_items>>
       ELSE /\ IngestionIds \ DOMAIN ingestions # {}
            /\ LET ingestion_id == NewIngestionId
                   created == ingestion_create(ingestions, ingestion_id, scope,
                                               client_code, "DRAFT", clock)
                   r == synthesize(o.responses, DefaultMaxRetries)
               IN  IF ~o.ctor_ok
                   THEN \* SynthesisPipeline() raised: the outer handler
                        /\ ingestions' = created
                        /\ UNCHANGED kb_items
                        /\ ret' = [op |-> "do_ingest",
                                   ingestion_id |-> ingestion_id,
                                   outcome |-> "Exception"]
                   ELSE IF r.raised
                   THEN /\ ingestions' = ingestion_update_status(created,
                                             ingestion_id, "FAILED", clock)
                        /\ UNCHANGED kb_items
                        /\ ret' = [op |-> "do_ingest",
                                   ingestion_id |-> ingestion_id,
                                   outcome |-> "SynthesisError"]
                   ELSE /\ ingestions' = ingestion_update_status(created,
                                             ingestion_id, "SYNTHESIZED", clock)
                        /\ kb_items' \in StoreItems(kb_items, r.data.kb_items,
                                             1, scope, client_code, o,
                                             ingestion_id)
                        /\ ret' = [op |-> "do_ingest",
                                   ingestion_id |-> ingestion_id,
                                   outcome |-> "completed"]
    /\ UNCHANGED <<collections, clock, qlog, synth, ingestion_status, writers>>

----------------------------------------------------------------------------
(* Inputs *)

KBItemStatus == {"DRAFT", "APPROVED", "REJECTED"}

Bodies == {"body1", "body2", "body3"}

Titles == { <<"a">>, <<"A">>, <<"SP", "a">>, <<"a", "TAB">>,
            <<"u_uml">>, <<"U_UML">> }

\* the ingestion callers (IngestTab, _run_synthesis) store items as DRAFT

\* one group key, titles that differ in case and whitespace, three bodies
RepoArgs ==
    { Args("standard", None, "INCIDENT_PATTERN", ti, b, NoTags, NoTags, "DRAFT") :
        ti \in Titles, b \in Bodies }

\* the same title and body under several types, scopes and tenants, and one
\* item with another title
GroupKeys ==
    { <<"standard", None, "INCIDENT_PATTERN">>, <<"standard", None, "ROOT_CAUSE">>,
      <<"client", "SWE", "INCIDENT_PATTERN">>, <<"client", "HER", "INCIDENT_PATTERN">> }

GroupArgs ==
    { Args(k[1], k[2], k[3], <<"a">>, b, NoTags, NoTags, "DRAFT") :
        k \in GroupKeys, b \in {"body1", "body2"} }
    \cup { Args("standard", None, "INCIDENT_PATTERN", <<"u_uml">>, "body1",
                NoTags, NoTags, "DRAFT") }

\* shared and tenant items whose content can change between ingestions
IndexArgs ==
    { Args(sc[1], sc[2], "INCIDENT_PATTERN", <<"a">>, b, NoTags, NoTags, "DRAFT") :
        sc \in { <<"standard", None>>, <<"client", "SWE">> },
        b \in {"body1", "body2"} }

\* one item per scope: shared, tenant SWE, tenant HER
SearchItemArgs ==
    { Args(sc[1], sc[2], "INCIDENT_PATTERN", <<"a">>, "body1", NoTags, NoTags,
           "DRAFT") :
        sc \in { <<"standard", None>>, <<"client", "SWE">>, <<"client", "HER">> } }

\* items of the shared scope, of tenant SWE, and of the client scope without
\* a client code
ScopeItemArgs ==
    { Args(sc[1], sc[2], "INCIDENT_PATTERN", <<"a">>, "body1", NoTags, NoTags,
           "DRAFT") :
        sc \in { <<"standard", None>>, <<"client", "SWE">>, <<"client", None>> } }

Vecs == {1, 2}

EmbedFailed == [ok |-> FALSE, len |-> 0, vec |-> 0]

\* what EmbeddingService.embed can produce: a vector of the model's size,
\* a vector of another size, or an exception
Embeddings ==
    { [ok |-> TRUE, len |-> l, vec |-> v] :
        l \in {VECTOR_SIZE, LegacySize}, v \in Vecs } \cup {EmbedFailed}

Embedding(l, v) == [ok |-> TRUE, len |-> l, vec |-> v]

IndexEmbeddings ==
    {Embedding(VECTOR_SIZE, 1), Embedding(LegacySize, 1), EmbedFailed}

MaxLimit == 2

SearchArgs ==
    { [query_embedding |-> Embedding(l, 1), client_scope |-> sc[1],
       client_code |-> sc[2], limit |-> lim, include_standard |-> inc] :
        l \in {VECTOR_SIZE, LegacySize},
        sc \in { <<"standard", None>>, <<"client", None>>, <<"client", "SWE">>,
                 <<"client", "swe">>, <<"client", "HER">> },
        lim \in 1..MaxLimit, inc \in BOOLEAN }

\* two items of the shared scope; the first names a transaction
ChatItemArgs ==
    { Args("standard", None, "INCIDENT_PATTERN", <<"a">>, "body1",
           <<"billing">>, <<"EL31">>, "DRAFT"),
      Args("standard", None, "RUNBOOK", <<"A">>, "body2", NoTags, NoTags,
           "DRAFT") }

Questions == { <<"error">>, <<"el31", "error">> }

Scores == {90, 88}

\* what a search can return: at most `limit` hits of distinct ids, best
\* first; the ids need not be in the store
HitSeqs(limit) ==
    UNION { { h \in [1..n -> { Hit(id, sc) : id \in KbIds, sc \in Scores }] :
                \A x, y \in 1..n : x < y =>
                    (h[x].kb_id # h[y].kb_id /\ h[x].score >= h[y].score) } :
            n \in 0..limit }

SearchFailed == [ok |-> FALSE, results |-> << >>]

AnswerArg(question, embed, search, generate) ==
    [question |-> question, embed |-> embed, search |-> search,
     generate |-> generate]

\* requests whose embedding fails, whose search fails, and whose search
\* returns hits with the generation service up or down
AnswerArgs ==
    { AnswerArg(q, EmbedFailed, SearchFailed, FALSE) : q \in Questions }
    \cup { AnswerArg(q, Embedding(VECTOR_SIZE, 1), SearchFailed, FALSE) :
              q \in Questions }
    \cup { AnswerArg(q, Embedding(VECTOR_SIZE, 1),
                     [ok |-> TRUE, results |-> h], g) :
              q \in Questions, h \in HitSeqs(MaxLimit), g \in BOOLEAN }

\* a runbook long enough to fill the context budget and a short incident
LongChatItemArgs ==
    { Args("standard", None, "RUNBOOK", <<"a">>, "text99950", NoTags, NoTags,
           "DRAFT"),
      Args("standard", None, "INCIDENT_PATTERN", <<"a">>, "body1",
           <<"billing">>, <<"EL31">>, "DRAFT") }

\* one shared item and one item of client SWE
WebChatItemArgs ==
    { Args(sc[1], sc[2], "INCIDENT_PATTERN", <<"a">>, "body1", NoTags, NoTags,
           "DRAFT") :
        sc \in { <<"standard", None>>, <<"client", "SWE">> } }

\* web chat requests whose embedding and search succeed
WebAnswerArgs ==
    { AnswerArg(<<"error">>, Embedding(VECTOR_SIZE, 1),
                [ok |-> TRUE, results |-> h], g) :
        h \in HitSeqs(MaxLimit), g \in BOOLEAN }

MaxSections == 2

CtxContents == {"text60", "text120", "text250"}

CtxBudgets == {150, 200, 240, 250, 400, 600}

\* tokens the tokenizer may need for one "\n\n---\n\n" between two sections
SepTokenCounts == {1, 2, 3}

CtxItem(kb_id, content_markdown) ==
    NewRow(kb_id,
           Args("standard", None, "RUNBOOK", <<"a">>, content_markdown, NoTags,
                NoTags, "APPROVED"),
           1, compute_content_hash(content_markdown, <<"a">>, "RUNBOOK"), 0, 0)

\* ranked candidate lists of at most MaxSections items
CtxSourceItems ==
    UNION { { [i \in 1..n |-> Scored(CtxItem(i, c[i]), 90 - i)] :
                c \in [1..n -> CtxContents] } : n \in 0..MaxSections }

MaxRetries == 2

ValidItem ==
    SynthItem(TRUE, "INCIDENT_PATTERN", "STR", "STR", "STRLIST", "STRLIST", "OBJECT")

SynthItems ==
    { ValidItem,
      SynthItem(TRUE, "BOGUS", "BLANK", "STR", "STRLIST", "MIXEDLIST", "OBJECT"),
      SynthItem(TRUE, "RUNBOOK", "STR", "NONSTR", "MISSING", "NOTLIST", "NOTOBJECT"),
      SynthItem(FALSE, "MISSING", "MISSING", "MISSING", "MISSING", "MISSING", "MISSING") }

Responses ==
    { Response("api_error", NoData), Response("invalid_json", NoData),
      Response("json", Data("not_object", << >>)),
      Response("json", Data("no_kb_items", << >>)),
      Response("json", Data("kb_items_not_list", << >>)),
      Response("json", Data("kb_items", << >>)) }
    \cup { Response("json", Data("kb_items", <<i>>)) : i \in SynthItems }
    \cup { Response("json", Data("kb_items", <<i, j>>)) :
              i \in {ValidItem}, j \in SynthItems }
    \cup { Response("json", Data("kb_items", <<j, i>>)) :
              i \in {ValidItem}, j \in SynthItems }

ValidRunbook ==
    SynthItem(TRUE, "RUNBOOK", "STR", "STR", "STRLIST", "STRLIST", "OBJECT")

\* what the model can answer during an ingestion
IngestResponses ==
    { Response("api_error", NoData),
      Response("json", Data("kb_items", <<ValidItem>>)),
      Response("json", Data("kb_items", <<ValidItem, ValidRunbook>>)),
      Response("json", Data("kb_items",
          <<ValidItem, SynthItem(TRUE, "BOGUS", "BLANK", "STR", "STRLIST",
                                 "MIXEDLIST", "OBJECT")>>)) }

\* runs of the pipeline: constructed or not, one response per attempt, the
\* body text of the items
IngestOutcomes ==
    { [ctor_ok |-> c, responses |-> rs, content_markdown |-> b] :
        c \in BOOLEAN,
        rs \in [1..Attempts(DefaultMaxRetries) -> IngestResponses],
        b \in {"body1", "body2"} }

----------------------------------------------------------------------------
(* Specifications *)

NoRet == [op |-> "none"]

EmptyTable == [id \in {} |-> NoItem]

NoIngestions == [id \in {} |-> [status |-> "<None>"]]

NoCollections == [n \in {} |-> [size |-> NoSize, points |-> NoPoints]]

\* a collection left behind by an installation with another embedding model
LegacyStandard ==
    [n \in {StandardCollection} |-> [size |-> LegacySize, points |-> NoPoints]]

\* a collection configured with named vectors: info.config.params.vectors
\* has no `size`
UnsizedStandard ==
    [n \in {StandardCollection} |-> [size |-> NoSize, points |-> NoPoints]]

InitRepo ==
    /\ kb_items = EmptyTable
    /\ collections = NoCollections
    /\ clock = 0
    /\ ret = NoRet
    /\ qlog = NoQlog
    /\ synth = SynthIdle
    /\ ingestions = NoIngestions
    /\ ingestion_status = NoIngestions
    /\ writers = NoWriters

\* the repository alone, one group key: any sequence of upserts
NextRepo == \E a \in RepoArgs : CreateOrUpdate(a)

SpecRepo == InitRepo /\ [][NextRepo]_vars

\* calls for one group that differ in body and in everything the content
\* hash leaves out: tags, objects, sources, status
FrameArgs ==
    { WithSources(Args("standard", None, "INCIDENT_PATTERN", <<"a">>, b, t, t,
                       st), src) :
        b \in {"body1", "body2"}, t \in {NoTags, <<"billing">>},
        st \in {"DRAFT", "APPROVED"}, src \in {0, 1} }

\* the repository with review decisions and time passing between the calls
NextFrame ==
    \/ \E a \in FrameArgs : CreateOrUpdate(a)
    \/ \E id \in KbIds : ApproveAndIndex(id, Embedding(VECTOR_SIZE, 1))
    \/ \E id \in KbIds : Reject(id)
    \/ Tick

SpecFrame == InitRepo /\ [][NextFrame]_vars

\* the group of the concurrent writers: one title, three bodies
WriterArgs ==
    { Args("standard", None, "INCIDENT_PATTERN", <<"a">>, b, NoTags, NoTags,
           "DRAFT") : b \in Bodies }

\* the versions the group can have before the writers start
SeedVersions == 1..(MaxVersion - MaxWriters)

\* the table after earlier, sequential calls left the group at version v
SeededTable(v) ==
    [id \in {1} |->
       NewRow(1, Args("standard", None, "INCIDENT_PATTERN", <<"a">>, "body1",
                      NoTags, NoTags, "DRAFT"),
              v, compute_content_hash("body1", <<"a">>, "INCIDENT_PATTERN"),
              0, 0)]

InitWriters ==
    /\ kb_items \in {EmptyTable} \cup { SeededTable(v) : v \in SeedVersions }
    /\ collections = NoCollections
    /\ clock = 0
    /\ ret = NoRet
    /\ qlog = NoQlog
    /\ synth = SynthIdle
    /\ ingestions = NoIngestions
    /\ ingestion_status = NoIngestions
    /\ writers = [w \in Writers |-> WriterIdle]

\* create_or_update calls of several writers, interleaved statement by
\* statement
NextWriters ==
    \/ \E w \in Writers, a \in WriterArgs : WriterSelect(w, a)
    \/ \E w \in Writers : WriterInsert(w)
    \/ \E w \in Writers : WriterReturn(w)

SpecWriters == InitWriters /\ [][NextWriters]_vars

\* the repository alone, several group keys
NextGroups == \E a \in GroupArgs : CreateOrUpdate(a)

SpecGroups == InitRepo /\ [][NextGroups]_vars

InitIndex ==
    /\ kb_items = EmptyTable
    /\ collections \in {NoCollections, LegacyStandard}
    /\ clock = 0
    /\ ret = NoRet
    /\ qlog = NoQlog
    /\ synth = SynthIdle
    /\ ingestions = NoIngestions
    /\ ingestion_status = NoIngestions
    /\ writers = NoWriters

\* ingestion, review and the vector index
NextIndex ==
    \/ \E a \in IndexArgs : CreateOrUpdate(a)
    \/ \E id \in KbIds, e \in IndexEmbeddings : ApproveAndIndex(id, e)
    \/ \E id \in KbIds : Reject(id)
    \/ \E id \in KbIds, e \in IndexEmbeddings \ {EmbedFailed} : UpsertKbItem(id, e)
    \/ \E id \in KbIds : DeleteKbItem(id)

SpecIndex == InitIndex /\ [][NextIndex]_vars

\* the vector index next to collections that other installations left
InitDims ==
    /\ kb_items = EmptyTable
    /\ collections \in {NoCollections, LegacyStandard, UnsizedStandard}
    /\ clock = 0
    /\ ret = NoRet
    /\ qlog = NoQlog
    /\ synth = SynthIdle
    /\ ingestions = NoIngestions
    /\ ingestion_status = NoIngestions
    /\ writers = NoWriters

NextDims ==
    \/ \E a \in SearchItemArgs : CreateOrUpdate(a)
    \/ \E id \in KbIds, e \in IndexEmbeddings : ApproveAndIndex(id, e)
    \/ \E id \in KbIds, e \in IndexEmbeddings \ {EmbedFailed} :
          UpsertKbItem(id, e)

SpecDims == InitDims /\ [][NextDims]_vars

\* every scoped operation, with and without a client code
NextScope ==
    \/ \E a \in ScopeItemArgs : CreateOrUpdate(a)
    \/ \E id \in KbIds : ApproveAndIndex(id, Embedding(VECTOR_SIZE, 1))
    \/ \E id \in KbIds : UpsertKbItem(id, Embedding(VECTOR_SIZE, 1))
    \/ \E id \in KbIds : DeleteKbItem(id)
    \/ \E a \in SearchArgs : Search(a)

SpecScope == InitIndex /\ [][NextScope]_vars

\* ingestion, review, the vector index and scoped search
NextSearch ==
    \/ \E a \in SearchItemArgs : CreateOrUpdate(a)
    \/ \E id \in KbIds, v \in Vecs : ApproveAndIndex(id, Embedding(VECTOR_SIZE, v))
    \/ \E id \in KbIds : Reject(id)
    \/ \E a \in SearchArgs : Search(a)

SpecSearch == InitIndex /\ [][NextSearch]_vars

\* calls of synthesize against a model that answers anything
NextSynth ==
    \/ \E m \in 0..MaxRetries : SynthCall(m)
    \/ \E r \in Responses : SynthAttempt(r)
    \/ SynthRaise

SpecSynth == InitRepo /\ [][NextSynth]_vars

\* the ingestion table alone: any sequence of create and update_status calls
NextIngestionRepo ==
    \/ \E s \in IngestionStatus : IngestionCreate("standard", None, s)
    \/ \E id \in IngestionIds, s \in IngestionStatus :
          IngestionUpdateStatus(id, s)

SpecIngestionRepo == InitRepo /\ [][NextIngestionRepo]_vars

\* ingestions through the web router and the desktop tab
NextIngest ==
    \/ \E sc \in {"standard", "client"}, code \in {None, "SWE"} :
          IngestText(sc, code)
    \/ \E id \in IngestionIds, o \in IngestOutcomes : RunSynthesis(id, o)
    \/ \E sc \in {"standard", "client"}, code \in {None, "SWE"},
          o \in IngestOutcomes : DoIngest(sc, code, o)

SpecIngest == InitRepo /\ [][NextIngest]_vars

\* ingestion, review and questions over the shared scope
NextChat ==
    \/ \E a \in ChatItemArgs : CreateOrUpdate(a)
    \/ \E id \in KbIds : ApproveAndIndex(id, Embedding(VECTOR_SIZE, 1))
    \/ \E id \in KbIds : Reject(id)
    \/ \E a \in AnswerArgs : Answer(a)

SpecChat == InitRepo /\ [][NextChat]_vars

\* questions over a store that holds a very long item
NextLongChat ==
    \/ \E a \in LongChatItemArgs : CreateOrUpdate(a)
    \/ \E id \in KbIds : ApproveAndIndex(id, Embedding(VECTOR_SIZE, 1))
    \/ \E a \in AnswerArgs : Answer(a)

SpecLongChat == InitRepo /\ [][NextLongChat]_vars

\* the web chat over the shared store and the store of client SWE
NextWebChat ==
    \/ \E a \in WebChatItemArgs : CreateOrUpdate(a)
    \/ \E id \in KbIds : ApproveAndIndex(id, Embedding(VECTOR_SIZE, 1))
    \/ \E scope \in ChatScopes, code \in {None, "SWE"}, a \in WebAnswerArgs :
          ChatSend(scope, code, a)

SpecWebChat == InitRepo /\ [][NextWebChat]_vars

\* _build_context_pack applied to any candidate list and budget
InitCtx ==
    /\ kb_items = EmptyTable
    /\ collections = NoCollections
    /\ clock = 0
    /\ ret \in { [op |-> "call_build_context_pack",
                  args |-> [source_items |-> si, max_tokens |-> m,
                            sep_tokens |-> st]] :
                  si \in CtxSourceItems, m \in CtxBudgets,
                  st \in SepTokenCounts }
    /\ qlog = NoQlog
    /\ synth = SynthIdle
    /\ ingestions = NoIngestions
    /\ ingestion_status = NoIngestions
    /\ writers = NoWriters

NextCtx == BuildContextPack

SpecCtx == InitCtx /\ [][NextCtx]_vars

----------------------------------------------------------------------------
(* Properties of the repository *)

\* the (scope, tenant_code, type, normalized-title) group of an upsert
InGroup(row, a) ==
    /\ row.client_scope = a.client_scope
    /\ row.client_code = a.client_code
    /\ row.type = a.type
    /\ normalize_title(row.title) = normalize_title(a.title)

GroupIds(a) == { id \in DOMAIN kb_items : InGroup(kb_items[id], a) }

SameKey(a, b) ==
    /\ a.client_scope = b.client_scope
    /\ a.client_code = b.client_code
    /\ a.type = b.type
    /\ a.title = b.title

\* C1: two create_or_update calls in a row with identical arguments return
\* the same id and the same version, and the second reports is_new = FALSE.
C1_DedupIdempotent ==
    [][ (ret.op = "create_or_update" /\ ret'.op = "create_or_update"
         /\ ret'.args = ret.args)
        => (/\ ret'.item.kb_id = ret.item.kb_id
            /\ ret'.item.version = ret.item.version
            /\ ~ret'.is_new) ]_vars

\* C2: for a fixed (scope, tenant_code, type, title) the first call on a
\* group that has no item reports is_new = TRUE at version 1, and every next
\* call with a body different from the previous one returns the same id at
\* the previous version + 1 with is_new = FALSE.
C2_VersionSequence ==
    [][ ret'.op = "create_or_update" =>
        /\ (GroupIds(ret'.args) = {}
              => (ret'.is_new /\ ret'.item.version = 1))
        /\ (ret.op = "create_or_update" /\ SameKey(ret.args, ret'.args)
            /\ ret'.args.content_markdown # ret.args.content_markdown)
              => (/\ ret'.item.kb_id = ret.item.kb_id
                  /\ ret'.item.version = ret.item.version + 1
                  /\ ~ret'.is_new) ]_vars

\* C9: an upsert whose title differs only in letter case or leading/trailing
\* whitespace from the title of an existing item of the same scope,
\* tenant_code and type returns an id of that group with is_new = FALSE and
\* allocates no id.
C9_TitleCaseInsensitive ==
    [][ (/\ ret'.op = "create_or_update"
         /\ \E id \in GroupIds(ret'.args) :
               kb_items[id].title # ret'.args.title)
        => (/\ ret'.item.kb_id \in GroupIds(ret'.args)
            /\ ~ret'.is_new
            /\ DOMAIN kb_items' = DOMAIN kb_items) ]_vars

\* C10: an upsert into a group without items creates a fresh id at version 1
\* with is_new = TRUE; two calls in a row with the same title and body but
\* another type, scope or tenant_code return different ids; and no upsert
\* changes a row of another group.
C10_GroupIsolation ==
    [][ ret'.op = "create_or_update" =>
        /\ (GroupIds(ret'.args) = {}
              => (/\ ret'.is_new
                  /\ ret'.item.version = 1
                  /\ ret'.item.kb_id \notin DOMAIN kb_items))
        /\ (ret.op = "create_or_update"
            /\ ret'.args.title = ret.args.title
            /\ ret'.args.content_markdown = ret.args.content_markdown
            /\ (ret'.args.type # ret.args.type
                \/ ret'.args.client_scope # ret.args.client_scope
                \/ ret'.args.client_code # ret.args.client_code))
              => ret'.item.kb_id # ret.item.kb_id
        /\ \A id \in DOMAIN kb_items :
              ~InGroup(kb_items[id], ret'.args)
                => (id \in DOMAIN kb_items' /\ kb_items'[id] = kb_items[id])
      ]_vars

\* two items with the same title and body in different groups, both at
\* version 1, the second just created
C10_Witness ==
    /\ ret.op = "create_or_update"
    /\ ret.is_new
    /\ \E id \in DOMAIN kb_items :
          /\ id # ret.item.kb_id
          /\ kb_items[id].title = ret.item.title
          /\ kb_items[id].content_markdown = ret.item.content_markdown
          /\ kb_items[id].version = 1
          /\ ret.item.version = 1
          /\ (kb_items[id].type # ret.item.type
              \/ kb_items[id].client_code # ret.item.client_code)

\* the writer's call has written its row
Wrote(w) == writers[w].pc \in {"committed", "done"}

\* two calls for the same (scope, client_code, type, normalized title)
SameGroupArgs(a, b) ==
    /\ a.client_scope = b.client_scope
    /\ a.client_code = b.client_code
    /\ a.type = b.type
    /\ normalize_title(a.title) = normalize_title(b.title)

\* C21: two create_or_update calls for the same group that both looked up
\* before either inserted, and found no row, each insert a version-1 row
\* under an id of its own: the group holds two items created as version 1.
C21_DoubleCreate ==
    \A w1 \in Writers, w2 \in Writers :
        ( /\ w1 # w2
          /\ Wrote(w1) /\ Wrote(w2)
          /\ writers[w1].row = NoRow /\ writers[w2].row = NoRow
          /\ SameGroupArgs(writers[w1].a, writers[w2].a) )
        => /\ writers[w1].kb_id # writers[w2].kb_id
           /\ {writers[w1].kb_id, writers[w2].kb_id} \subseteq DOMAIN kb_items
           /\ writers[w1].is_new /\ writers[w2].is_new
           /\ writers[w1].new_version = 1 /\ writers[w2].new_version = 1

\* both writers have returned from a call that found no row, and the table
\* holds two version-1 rows of the group
C21_Witness ==
    /\ \A w \in {1, 2} : writers[w].pc = "done" /\ writers[w].row = NoRow
    /\ SameGroupArgs(writers[1].a, writers[2].a)
    /\ writers[1].a.content_markdown # writers[2].a.content_markdown
    /\ Cardinality({ id \in DOMAIN kb_items : kb_items[id].version = 1 }) = 2

\* the writers that have returned, all others not having called
Batch == { w \in Writers : writers[w].pc = "done" }

\* C29: when the calls in progress have all returned, each having changed
\* the content of an existing group with a body of its own, they were given
\* pairwise different versions and the item stands at v + k, v being the
\* version before the first call and k the number of calls.
C29_NoLostVersion ==
    ( /\ Batch # {}
      /\ \A w \in Writers \ Batch : writers[w].pc = "idle"
      /\ \A w \in Batch :
            /\ writers[w].row # NoRow
            /\ writers[w].row.content_hash #
                  compute_content_hash(writers[w].a.content_markdown,
                                       writers[w].a.title, writers[w].a.type)
      /\ \A w1 \in Batch, w2 \in Batch :
            w1 # w2 => writers[w1].a.content_markdown #
                       writers[w2].a.content_markdown )
    => LET v == CHOOSE x \in { writers[w].row.version : w \in Batch } :
                  \A w \in Batch : x <= writers[w].row.version
           kb_id == CHOOSE id \in { writers[w].kb_id : w \in Batch } : TRUE
       IN  /\ \A w1 \in Batch, w2 \in Batch :
                 w1 # w2 => writers[w1].new_version # writers[w2].new_version
           /\ kb_items[kb_id].version = v + Cardinality(Batch)

\* the rows the lookup of a call with the given arguments returns whose
\* content hash is the call's
Matching(a) ==
    { id \in LookupLatest(a.client_scope, a.client_code, a.type,
                          normalize_title(a.title)) :
        kb_items[id].content_hash =
           compute_content_hash(a.content_markdown, a.title, a.type) }

\* the same, with another content hash
Changing(a) ==
    LookupLatest(a.client_scope, a.client_code, a.type,
                 normalize_title(a.title)) \ Matching(a)

\* C24: a create_or_update that matches an existing item with an equal
\* content hash leaves the table as it is, every field of the row included,
\* and returns that row with is_new = FALSE.
C24_DedupeLeavesRow ==
    [][ (ret'.op = "create_or_update" /\ Matching(ret'.args) # {})
        => /\ kb_items' = kb_items
           /\ ret'.item.kb_id \in Matching(ret'.args)
           /\ ret'.item = kb_items[ret'.item.kb_id]
           /\ ~ret'.is_new ]_vars

\* a deduplicated call that passed other tags, sources and status than the
\* stored ones, later than the row was written
C24_Witness ==
    /\ ret.op = "create_or_update"
    /\ ~ret.wrote
    /\ ret.args.tags # ret.item.tags_json
    /\ ret.args.sources # ret.item.sources_json
    /\ ret.args.status # ret.item.status
    /\ ret.item.version = 2
    /\ clock > ret.item.updated_at

\* C26: a create_or_update that changes the content of an existing item
\* keeps its id and created_at, stores the next version and stores the
\* status of the call, whatever the stored status was.
C26_NewVersionStatus ==
    [][ (ret'.op = "create_or_update" /\ Changing(ret'.args) # {})
        => \E id \in Changing(ret'.args) :
              /\ ret'.item.kb_id = id
              /\ ~ret'.is_new
              /\ DOMAIN kb_items' = DOMAIN kb_items
              /\ kb_items'[id] = ret'.item
              /\ kb_items'[id].created_at = kb_items[id].created_at
              /\ kb_items'[id].version = kb_items[id].version + 1
              /\ kb_items'[id].status = ret'.args.status ]_vars

\* an approved item has got a new version stored as DRAFT, after its
\* creation time
C26_Witness ==
    /\ ret.op = "create_or_update"
    /\ ret.wrote
    /\ ret.item.version = 2
    /\ ret.args.status = "DRAFT"
    /\ ret.item.status = "DRAFT"
    /\ StandardCollection \in DOMAIN collections
    /\ ret.item.kb_id \in DOMAIN collections[StandardCollection].points
    /\ ret.item.created_at < ret.item.updated_at

\* two titles that differ in letter case and in nothing else
CaseOnly(t1, t2) ==
    /\ t1 # t2
    /\ Len(t1) = Len(t2)
    /\ \A i \in 1..Len(t1) : PyLowerChar(t1[i]) = PyLowerChar(t2[i])

\* C25: a create_or_update with the type and body of the stored item and a
\* title that differs from the stored one in letter case only returns the
\* stored item and creates no version.
C25_CaseOnlyDedupe ==
    [][ ( /\ ret'.op = "create_or_update"
          /\ \E id \in LookupLatest(ret'.args.client_scope,
                                     ret'.args.client_code, ret'.args.type,
                                     normalize_title(ret'.args.title)) :
                /\ CaseOnly(kb_items[id].title, ret'.args.title)
                /\ kb_items[id].content_markdown = ret'.args.content_markdown )
        => /\ ~ret'.is_new
           /\ ret'.item.kb_id \in DOMAIN kb_items
           /\ ret'.item.version = kb_items[ret'.item.kb_id].version
           /\ kb_items' = kb_items ]_vars

----------------------------------------------------------------------------
(* Properties of ingestion *)

\* draft -> synthesized -> approved | rejected, and draft -> failed
AllowedTransitions ==
    { <<"DRAFT", "SYNTHESIZED">>, <<"SYNTHESIZED", "APPROVED">>,
      <<"SYNTHESIZED", "REJECTED">>, <<"DRAFT", "FAILED">> }

\* C17: over any sequence of update_status calls the status of an ingestion
\* record only moves draft -> synthesized -> approved | rejected or
\* draft -> failed: nothing leaves approved, rejected or failed, nothing
\* returns to draft, and failed is reached only from draft.
C17_StatusTransitions ==
    [][ \A id \in DOMAIN ingestions :
          /\ id \in DOMAIN ingestions'
          /\ \/ ingestions'[id].status = ingestions[id].status
             \/ <<ingestions[id].status, ingestions'[id].status>>
                    \in AllowedTransitions ]_vars

\* the stored knowledge items whose sources name the ingestion
ItemsOf(table, ingestion_id) ==
    { k \in DOMAIN table : table[k].sources_json.ingestion_id = ingestion_id }

\* C18: when the synthesis of an ingestion ends in SynthesisError, the
\* ingestion record is persisted as FAILED and no knowledge item that
\* references the ingestion is stored, then or later.
C18_FailedIngestion ==
    /\ [][ (ret'.op \in {"run_synthesis", "do_ingest"}
            /\ ret'.outcome = "SynthesisError")
           => /\ ret'.ingestion_id \in DOMAIN ingestions'
              /\ ingestions'[ret'.ingestion_id].status = "FAILED"
              /\ kb_items' = kb_items
              /\ ItemsOf(kb_items', ret'.ingestion_id) = {} ]_vars
    /\ [](\A id \in DOMAIN ingestions :
            ingestions[id].status = "FAILED" => ItemsOf(kb_items, id) = {})

\* a background synthesis ended in SynthesisError while items of an earlier
\* ingestion are stored
C18_Witness ==
    /\ ret.op = "run_synthesis"
    /\ ret.outcome = "SynthesisError"
    /\ ingestions[ret.ingestion_id].status = "FAILED"
    /\ ingestion_status[ret.ingestion_id].status = "failed"
    /\ kb_items # EmptyTable
    /\ \E id \in DOMAIN ingestions :
          ingestions[id].status = "SYNTHESIZED" /\ ItemsOf(kb_items, id) # {}

\* C28: when a background synthesis task has ended, the tracker and the
\* ingestion record agree: 'completed' goes with SYNTHESIZED and 'failed'
\* with FAILED.
C28_TrackerAgrees ==
    \A id \in DOMAIN ingestion_status :
        /\ ingestion_status[id].status = "completed"
              => ingestions[id].status = "SYNTHESIZED"
        /\ ingestion_status[id].status = "failed"
              => ingestions[id].status = "FAILED"

----------------------------------------------------------------------------
(* Properties of ChatService *)

GenCalls(calls) == Cardinality({ i \in DOMAIN calls : calls[i] = "generate" })

\* a search result that is an existing approved item of the store
Resolves(hit) ==
    /\ hit.kb_id \in DOMAIN kb_items
    /\ kb_items[hit.kb_id].status = "APPROVED"

ValidHits ==
    { i \in DOMAIN ret.args.search.results :
        Resolves(ret.args.search.results[i]) }

\* C11: every item in an answer's sources, and every section of the context
\* given to the generation model, is a stored item with status APPROVED that
\* the search returned; of a search result that mixes valid ids with missing
\* or non-approved ones exactly the valid ones are kept.
C11_SourcesApproved ==
    (ret.op = "answer" /\ ret.args.embed.ok /\ ret.args.search.ok) =>
        /\ \A i \in DOMAIN ret.sources :
              /\ ret.sources[i].kb_id \in DOMAIN kb_items
              /\ ret.sources[i] = kb_items[ret.sources[i].kb_id]
              /\ ret.sources[i].status = "APPROVED"
        /\ \A i \in DOMAIN ret.context :
              \E h \in ValidHits :
                  ret.args.search.results[h].kb_id = ret.context[i].kb_id
        /\ ret.outcome = "ChatResult" =>
              /\ Len(ret.sources) = Cardinality(ValidHits)
              /\ \A h \in ValidHits : \E i \in DOMAIN ret.sources :
                    ret.sources[i].kb_id = ret.args.search.results[h].kb_id
              /\ ret.used_kb_items
                    = [i \in DOMAIN ret.sources |-> ret.sources[i].kb_id]

\* a non-approved id ranked before an approved one: the approved one alone
\* is the answer's source
C11_Witness ==
    /\ ret.op = "answer"
    /\ ret.outcome = "ChatResult"
    /\ Len(ret.args.search.results) = 2
    /\ ~Resolves(ret.args.search.results[1])
    /\ ret.args.search.results[1].kb_id \in DOMAIN kb_items
    /\ Resolves(ret.args.search.results[2])
    /\ Len(ret.sources) = 1
    /\ ret.sources[1].kb_id = ret.args.search.results[2].kb_id
    /\ ret.model_called

\* C13: the sections of the context are a prefix of the ranked candidate
\* list, in rank order; only the last included section can be truncated; a
\* section is truncated only when the budget left before it exceeds the floor
\* of 100 tokens, and is dropped otherwise; every section before the first
\* one that does not fit is included whole.
C13_SectionsArePrefix ==
    ret.op = "build_context_pack" =>
        LET cands == ret.args.source_items
            secs == ret.sections
            whole(i) == Section(i, cands[i].item, cands[i].score)
            before(i) == SumTokens(SubSeq(secs, 1, i - 1))
        IN  /\ Len(secs) <= Len(cands)
            /\ \A i \in DOMAIN secs :
                  /\ secs[i].index = i
                  /\ secs[i].kb_id = cands[i].item.kb_id
                  /\ i < Len(secs) => secs[i] = whole(i)
                  /\ secs[i].truncated =>
                        /\ ret.args.max_tokens - before(i) > MinTruncated
                        /\ secs[i].tokens = ret.args.max_tokens - before(i)
                        /\ secs[i].tokens < whole(i).tokens
                  /\ ~secs[i].truncated => secs[i] = whole(i)
            /\ Len(secs) < Len(cands) =>
                  LET n == Len(secs) + 1 IN
                  \/ \* the last section was truncated and the loop stopped
                     Len(secs) > 0 /\ secs[Len(secs)].truncated
                  \/ \* candidate n did not fit and too little was left
                     /\ before(n) + whole(n).tokens > ret.args.max_tokens
                     /\ ret.args.max_tokens - before(n) <= MinTruncated

\* a whole section followed by a truncated one
C13_Witness ==
    /\ ret.op = "build_context_pack"
    /\ Len(ret.args.source_items) = 2
    /\ Len(ret.sections) = 2
    /\ ~ret.sections[1].truncated
    /\ ret.sections[2].truncated

\* exactly the floor was left: the second candidate was dropped
C13_Dropped ==
    /\ ret.op = "build_context_pack"
    /\ Len(ret.args.source_items) = 2
    /\ Len(ret.sections) = 1
    /\ ~ret.sections[1].truncated
    /\ ret.args.max_tokens - ret.sections[1].tokens = MinTruncated

\* position of item kb_id in the sources of the last answer(), 0 if absent
SourceIndex(kb_id) ==
    IF \E i \in DOMAIN ret.sources : ret.sources[i].kb_id = kb_id
    THEN CHOOSE i \in DOMAIN ret.sources : ret.sources[i].kb_id = kb_id
    ELSE 0

\* the item has a tag or SAP object equal (ignoring case) to a question token
Matches(item, question) ==
    QueryTokens(question)
        \cap (UpperSet(item.tags_json) \cup UpperSet(item.sap_objects_json)) # {}

\* C12: of two approved candidates with equal search scores, the one with a
\* tag or SAP object equal to a question token comes before the one with no
\* match in the returned sources, whatever their order in the search result.
C12_BoostRanksFirst ==
    (ret.op = "answer" /\ ret.outcome = "ChatResult") =>
        \A i, j \in ValidHits :
            LET hi == ret.args.search.results[i]
                hj == ret.args.search.results[j]
            IN  ( /\ hi.score = hj.score
                  /\ Matches(kb_items[hi.kb_id], ret.args.question)
                  /\ ~Matches(kb_items[hj.kb_id], ret.args.question) )
                => /\ SourceIndex(hi.kb_id) > 0
                   /\ SourceIndex(hj.kb_id) > 0
                   /\ SourceIndex(hi.kb_id) < SourceIndex(hj.kb_id)

\* the matching item came second in the search result and first in sources
C12_Witness ==
    /\ ret.op = "answer"
    /\ ret.outcome = "ChatResult"
    /\ Len(ret.args.search.results) = 2
    /\ ret.args.search.results[1].score = ret.args.search.results[2].score
    /\ Resolves(ret.args.search.results[1])
    /\ Resolves(ret.args.search.results[2])
    /\ ~Matches(kb_items[ret.args.search.results[1].kb_id], ret.args.question)
    /\ Matches(kb_items[ret.args.search.results[2].kb_id], ret.args.question)
    /\ ret.sources[1].kb_id = ret.args.search.results[2].kb_id

\* C8: the token count of the context returned by _build_context_pack (the
\* included sections joined with their separators) does not exceed the
\* budget.
C8_ContextWithinBudget ==
    ret.op = "build_context_pack" =>
        ret.context_tokens <= ret.args.max_tokens

\* the sections alone (separators not counted) fit the budget
C8_SectionsWithinBudget ==
    ret.op = "build_context_pack" =>
        SumTokens(ret.sections) <= ret.args.max_tokens

CallsOf(calls, name) == { i \in DOMAIN calls : calls[i] = name }

\* C23: a request calls the embedding service once and first, the vector
\* search second, the store after the search and the generation service
\* last; a failed embedding or search ends the request with ChatError and
\* nothing is called after it.
C23_CallOrder ==
    ret.op = "answer"
    => LET calls == ret.calls IN
       /\ CallsOf(calls, "embed") = {1}
       /\ CallsOf(calls, "search") \subseteq {2}
       /\ \A i \in CallsOf(calls, "get_by_id") :
             i > 2 /\ CallsOf(calls, "search") = {2}
       /\ \A i \in CallsOf(calls, "generate") :
             /\ i = Len(calls)
             /\ \A j \in CallsOf(calls, "get_by_id") : j < i
             /\ CallsOf(calls, "search") = {2}
       /\ ~ret.args.embed.ok =>
             ret.outcome = "ChatError" /\ calls = <<"embed">>
       /\ (ret.args.embed.ok /\ ~ret.args.search.ok) =>
             ret.outcome = "ChatError" /\ calls = <<"embed", "search">>

\* a request that went through every step, and the state it ended in
C23_Witness ==
    /\ ret.op = "answer"
    /\ ret.outcome = "ChatResult"
    /\ ret.calls = <<"embed", "search", "get_by_id", "get_by_id", "generate">>

\* a request whose embedding call failed
C23_EmbedFailed ==
    /\ ret.op = "answer"
    /\ ~ret.args.embed.ok
    /\ DOMAIN kb_items # {}

\* C30: every item in the sources and used_kb_items of an answer has a
\* section, whole or truncated, in the context sent to the generation service.
C30_SourcesInContext ==
    (ret.op = "answer" /\ ret.outcome = "ChatResult" /\ ret.model_called)
    => /\ \A i \in DOMAIN ret.sources :
             \E j \in DOMAIN ret.context :
                ret.context[j].kb_id = ret.sources[i].kb_id
       /\ \A i \in DOMAIN ret.used_kb_items :
             \E j \in DOMAIN ret.context :
                ret.context[j].kb_id = ret.used_kb_items[i]

C27_ClientItemsResolved ==
    ( /\ ret.op = "chat_send"
      /\ ret.scope = "client_plus_standard"
      /\ ~Falsy(ret.client_code)
      /\ ret.outcome = "ChatResult" )
    => \A i \in DOMAIN ret.args.search.results :
          LET kb_id == ret.args.search.results[i].kb_id IN
          ( /\ kb_id \in DOMAIN kb_items
            /\ kb_items[kb_id].status = "APPROVED"
            /\ kb_items[kb_id].client_scope = "client"
            /\ kb_items[kb_id].client_code = ret.client_code )
          => \E j \in DOMAIN ret.sources : ret.sources[j].kb_id = kb_id

----------------------------------------------------------------------------
(* Properties of synthesize *)

\* C7: synthesize makes at most 1 + max_retries model calls; it makes no call
\* after a valid response and returns right after the first one; it raises
\* SynthesisError only after exactly 1 + max_retries calls, none of them
\* valid.
C7_RetryBound ==
    /\ synth.calls <= 1 + synth.max_retries
    /\ synth.calls = Len(synth.log)
    /\ \A i \in 1..Len(synth.log) :
          synth.log[i] = "valid" => (i = Len(synth.log) /\ synth.pc = "returned")
    /\ synth.pc = "returned" =>
          (synth.calls >= 1 /\ synth.log[synth.calls] = "valid")
    /\ synth.pc = "raised" =>
          (/\ synth.calls = 1 + synth.max_retries
           /\ \A i \in 1..Len(synth.log) :
                 synth.log[i] \in {"invalid_json", "api_error", "invalid"})

\* SynthesisError after a retry: an API error, then malformed JSON
C7_Witness ==
    /\ synth.pc = "raised"
    /\ synth.max_retries = 1
    /\ synth.log = <<"api_error", "invalid_json">>

\* the item has every required field in the required shape
ItemValid(item) ==
    /\ item.is_object
    /\ item.type \in KBItemType
    /\ item.title = "STR"
    /\ item.content_markdown = "STR"
    /\ item.tags = "STRLIST"
    /\ item.sap_objects = "STRLIST"
    /\ item.signals = "OBJECT"

HasInvalidItem(data) ==
    /\ data.shape = "kb_items"
    /\ \E i \in DOMAIN data.kb_items : ~ItemValid(data.kb_items[i])

\* C16: synthesize returns only batches whose items are all valid; a
\* response with at least one invalid item is rejected as a whole: nothing
\* of it is returned and the attempt counts as a failed attempt.
C16_NoPartialAcceptance ==
    /\ synth.pc = "returned" =>
          /\ synth.result.shape = "kb_items"
          /\ synth.result.kb_items # << >>
          /\ \A i \in DOMAIN synth.result.kb_items :
                ItemValid(synth.result.kb_items[i])
          /\ synth.result = synth.resp.data
    /\ (synth.resp.kind = "json" /\ HasInvalidItem(synth.resp.data)) =>
          /\ synth.pc \in {"loop", "raised"}
          /\ synth.result = NoData
          /\ synth.log[Len(synth.log)] = "invalid"
          /\ synth.attempt = synth.calls
          /\ synth.last_errors # << >>

\* the last response had a valid item followed by an invalid one and was
\* not returned
C16_Witness ==
    /\ synth.resp.kind = "json"
    /\ synth.resp.data.shape = "kb_items"
    /\ Len(synth.resp.data.kb_items) = 2
    /\ ItemValid(synth.resp.data.kb_items[1])
    /\ ~ItemValid(synth.resp.data.kb_items[2])
    /\ synth.pc = "raised"
    /\ synth.result = NoData

----------------------------------------------------------------------------
(* Properties of the vector index *)

Tenants == {"SWE", "HER"}

PointIds(name) ==
    IF name \in DOMAIN collections THEN DOMAIN collections[name].points ELSE {}

\* C3: every point of every collection is a stored item whose status is
\* APPROVED.
C3_OnlyApprovedIndexed ==
    \A name \in DOMAIN collections : \A id \in PointIds(name) :
        id \in DOMAIN kb_items /\ kb_items[id].status = "APPROVED"

\* C4: a search with tenant code A looks at no collection other than
\* kb_standard and A's, and returns no id that only another tenant's
\* collection holds.
C4_TenantIsolation ==
    (ret.op = "search" /\ ret.args.client_code # None) =>
        LET own == <<"kb_", Upper(ret.args.client_code)>> IN
        /\ \A i \in DOMAIN qlog :
              qlog[i].collection \in {StandardCollection, own}
        /\ \A B \in Tenants \ {Upper(ret.args.client_code)} :
              \A j \in DOMAIN ret.results :
                 ~(/\ ret.results[j].kb_id \in PointIds(<<"kb_", B>>)
                   /\ ret.results[j].kb_id \notin PointIds(own)
                   /\ ret.results[j].kb_id \notin PointIds(StandardCollection))

\* a search for tenant SWE that returned hits while tenant HER's collection
\* holds a point
C4_Witness ==
    /\ ret.op = "search"
    /\ ret.args.client_code = "SWE"
    /\ ret.args.client_scope = "client"
    /\ ret.results # << >>
    /\ PointIds(<<"kb_", "HER">>) # {}

\* the points of the collections a tenant-plus-shared search of tenant
\* client_code reads, as <<collection, point id>>
UnionPoints(client_code) ==
    { p \in {StandardCollection, <<"kb_", Upper(client_code)>>} \X KbIds :
        p[2] \in PointIds(p[1]) }

PointHit(p, qvec) ==
    Hit(collections[p[1]].points[p[2]].kb_id,
        ScoreOf(qvec, collections[p[1]].points[p[2]].vec))

Min(a, b) == IF a < b THEN a ELSE b

\* C14: a tenant-plus-shared search with limit L returns hits in
\* non-increasing score order, at most L of them, and they are the L
\* highest-scoring hits of the shared and the tenant collection together
\* (all of them when there are fewer than L).
C14_MergedTopL ==
    ( /\ ret.op = "search" /\ ret.err = "ok"
      /\ ret.args.client_scope = "client" /\ ~Falsy(ret.args.client_code)
      /\ ret.args.include_standard )
    => LET L == ret.args.limit
           qvec == ret.args.query_embedding.vec
           union == UnionPoints(ret.args.client_code)
           res == ret.results
       IN  /\ Len(res) = Min(L, Cardinality(union))
           /\ \A i, j \in DOMAIN res : i < j => res[i].score >= res[j].score
           /\ \E f \in [DOMAIN res -> union] :
                 /\ \A i, j \in DOMAIN res : i # j => f[i] # f[j]
                 /\ \A i \in DOMAIN res : res[i] = PointHit(f[i], qvec)
                 /\ \A p \in union :
                       (\A i \in DOMAIN res : f[i] # p) =>
                           \A i \in DOMAIN res :
                               PointHit(p, qvec).score <= res[i].score

\* limit 1 with a far point in the shared collection and a near one in the
\* tenant's: the tenant's point is the result
C14_Witness ==
    /\ ret.op = "search" /\ ret.err = "ok"
    /\ ret.args.client_scope = "client" /\ ret.args.client_code = "SWE"
    /\ ret.args.include_standard
    /\ ret.args.limit = 1
    /\ PointIds(StandardCollection) # {}
    /\ \A id \in PointIds(StandardCollection) :
          ScoreOf(ret.args.query_embedding.vec,
                  collections[StandardCollection].points[id].vec) = 40
    /\ Len(ret.results) = 1
    /\ ret.results[1].score = 90
    /\ ret.results[1].kb_id \in PointIds(<<"kb_", "SWE">>)

\* The scope selector of a search call: shared-only is client_scope
\* "standard" with include_standard, tenant-only is client_scope "client"
\* without include_standard, tenant-plus-shared is client_scope "client"
\* with include_standard.  The collections the selector names:
Selected(a) ==
    IF a.client_scope = "standard"
    THEN {StandardCollection}
    ELSE (IF a.include_standard THEN {StandardCollection} ELSE {})
         \cup {<<"kb_", Upper(a.client_code)>>}

IsSelector(a) ==
    \/ a.client_scope = "standard" /\ a.include_standard
    \/ a.client_scope = "client" /\ ~Falsy(a.client_code)

Called(name) == { qlog[i].collection : i \in { j \in DOMAIN qlog : qlog[j].call = name } }

CollectionOf(kb_id) ==
    get_collection_name(kb_items[kb_id].client_scope,
                        kb_items[kb_id].client_code)

\* C19: an existing collection passes ensure_collection_exists only if its
\* stored vector size is the expected one; otherwise upsert_kb_item fails
\* with the size-mismatch error and the collection gets no point; an absent
\* collection is created with the expected size.
C19_DimensionCheck ==
    /\ \A n \in DOMAIN collections :
          collections[n].size # VECTOR_SIZE => collections[n].points = NoPoints
    /\ ( /\ ret.op = "upsert_kb_item"
         /\ ret.status = "APPROVED"
         /\ ret.embedding.len = VECTOR_SIZE )
       => LET n == CollectionOf(ret.kb_id) IN
          /\ n \in DOMAIN collections
          /\ IF collections[n].size = VECTOR_SIZE
             THEN ret.err = "ok"
             ELSE /\ ret.err = "size_mismatch"
                  /\ \A i \in DOMAIN qlog : qlog[i].call # "upsert"

\* the client scope without a client code
NoTenant(client_scope, client_code) ==
    client_scope = "client" /\ Falsy(client_code)

\* C20: an operation of the client scope without a client code fails with
\* the scope error: create_or_update writes no such row, upsert_kb_item,
\* delete_kb_item and search return the scope error, and none of them calls
\* the vector store.
C20_ScopeError ==
    /\ \A id \in DOMAIN kb_items :
          ~NoTenant(kb_items[id].client_scope, kb_items[id].client_code)
    /\ ( /\ ret.op = "create_or_update"
         /\ NoTenant(ret.args.client_scope, ret.args.client_code) )
       => ~ret.wrote
    /\ ( /\ ret.op = "upsert_kb_item"
         /\ ret.status = "APPROVED"
         /\ ret.embedding.len = VECTOR_SIZE
         /\ NoTenant(kb_items[ret.kb_id].client_scope,
                     kb_items[ret.kb_id].client_code) )
       => ret.err = "scope" /\ qlog = << >>
    /\ ( /\ ret.op = "delete_kb_item"
         /\ NoTenant(kb_items[ret.kb_id].client_scope,
                     kb_items[ret.kb_id].client_code) )
       => ret.err = "scope" /\ qlog = << >>
    /\ ( /\ ret.op = "search"
         /\ ret.args.query_embedding.len = VECTOR_SIZE
         /\ NoTenant(ret.args.client_scope, ret.args.client_code) )
       => ret.err = "scope" /\ qlog = << >>

\* the search of C20 alone
C20_SearchScopeError ==
    ( /\ ret.op = "search"
      /\ ret.args.query_embedding.len = VECTOR_SIZE
      /\ NoTenant(ret.args.client_scope, ret.args.client_code) )
    => ret.err = "scope" /\ qlog = << >>

\* upsert_kb_item and delete_kb_item of C20 alone
C20_IndexScopeError ==
    ( /\ ret.op \in {"upsert_kb_item", "delete_kb_item"}
      /\ ret.op = "upsert_kb_item" =>
            ret.status = "APPROVED" /\ ret.embedding.len = VECTOR_SIZE
      /\ NoTenant(kb_items[ret.kb_id].client_scope,
                  kb_items[ret.kb_id].client_code) )
    => ret.err = "scope" /\ qlog = << >>

\* C6: upsert_kb_item fails with the not-approved error on an item that is
\* not APPROVED and with the dimension error on an embedding of another
\* length; in both cases the collections are as before and neither
\* create_collection nor upsert was called.
C6_ApprovalGate ==
    [][ (ret'.op = "upsert_kb_item"
         /\ (ret'.status # "APPROVED" \/ ret'.embedding.len # VECTOR_SIZE))
        => (/\ ret'.err = IF ret'.status # "APPROVED"
                          THEN "not_approved" ELSE "dimension"
            /\ collections' = collections
            /\ \A i \in DOMAIN qlog' :
                  qlog'[i].call \notin {"create_collection", "upsert"}) ]_vars

\* upsert_kb_item was refused for a DRAFT item
C6_Witness ==
    /\ ret.op = "upsert_kb_item"
    /\ ret.status = "DRAFT"
    /\ ret.err = "not_approved"

====
